---- MODULE Spec2Model ----
(***************************************************************************)
(* oEmbed endpoint resolution of alfarisi/urlmeta: the provider registry   *)
(* (providers.go), the wildcard scheme matcher with its compiled-regex     *)
(* cache and the ExtractOEmbed fallback chain (oembed.go).                 *)
(*                                                                         *)
(* Go strings are TLA+ strings; every conversion (QuoteMeta, SplitN,       *)
(* Replace, Join, regexp.Compile, MatchString) is computed character by    *)
(* character as the library computes it.                                   *)
(***************************************************************************)
EXTENDS Integers, Sequences, FiniteSets, TLC

VARIABLES
    knownProviders,  \* providers.go: the package-level provider slice
    regexCache,      \* oembed.go: map scheme -> compiled regex
    pc,              \* position of the Client.ExtractOEmbed call
    arg,             \* the targetURL argument as the caller passed it
    targetURL,       \* the local targetURL after normalizeURL
    endpoint,        \* endpoint found by findOEmbedEndpoint
    discovered,      \* (discoveredEndpoint, err) of discoverOEmbedEndpoint
    requests,        \* HTTP requests handed to httpClient.Do, with responses
    result,          \* (oembed, err) returned by Client.ExtractOEmbed
    query,           \* last completed registry / matcher call and its value
    mUrl,            \* matchScheme call: the candidate URL
    mScheme,         \* matchScheme call: the scheme pattern
    mResult,         \* matchScheme call: whether it was called, and its value
    mLen,            \* number of pieces the candidate URL was built from
    goroutines,      \* each goroutine's call, position in it and locals
    regexCacheMutex, \* oembed.go: the sync.RWMutex guarding regexCache
    cacheStores,     \* history: per cached scheme, its stores since the last
                     \* replacement of the map and the goroutine of the last one
    client,          \* urlmeta.go: the Client the calls are made on
    extract          \* the Client.Extract call: position, locals and result

vars == <<knownProviders, regexCache, pc, arg, targetURL, endpoint,
          discovered, requests, result, query, mUrl, mScheme, mResult, mLen,
          goroutines, regexCacheMutex, cacheStores, client, extract>>

\* the state only concurrent callers change
Concurrent == <<goroutines, regexCacheMutex, cacheStores>>

-----------------------------------------------------------------------------
(* strings *)

\* the nil pointer, error or interface value
Nil == "<nil>"

Char(s, i) == SubSeq(s, i, i)

\* does the text lit occur in s at position i
At(s, i, lit) ==
    i + Len(lit) - 1 <= Len(s) /\ SubSeq(s, i, i + Len(lit) - 1) = lit

\* strings.Contains(s, sub)
Contains(s, sub) ==
    \E i \in 1..(Len(s) - Len(sub) + 1) : SubSeq(s, i, i + Len(sub) - 1) = sub

\* strings.HasPrefix(s, p)
HasPrefix(s, p) == Len(s) >= Len(p) /\ SubSeq(s, 1, Len(p)) = p

\* index of the first occurrence of sub in s at or after position from; 0 if none
IndexFrom(s, sub, from) ==
    LET I == {i \in from..(Len(s) - Len(sub) + 1) : At(s, i, sub)} IN
    IF I = {} THEN 0 ELSE CHOOSE i \in I : \A k \in I : i <= k

\* strings.Replace(s, old, new, -1): every non-overlapping occurrence, left to right
RECURSIVE ReplaceAll(_, _, _)
ReplaceAll(s, old, new) ==
    CHOOSE r \in
        {IF i = 0 THEN s
         ELSE SubSeq(s, 1, i - 1) \o new
              \o ReplaceAll(SubSeq(s, i + Len(old), Len(s)), old, new) :
           i \in {IndexFrom(s, old, 1)}} : TRUE

\* strings.SplitN(s, sep, n) for n > 0: at most n substrings, the last one
\* is the unsplit remainder
RECURSIVE SplitN(_, _, _)
SplitN(s, sep, n) ==
    CHOOSE r \in
        {IF n <= 1 \/ i = 0 THEN <<s>>
         ELSE <<SubSeq(s, 1, i - 1)>>
              \o SplitN(SubSeq(s, i + Len(sep), Len(s)), sep, n - 1) :
           i \in {IndexFrom(s, sep, 1)}} : TRUE

\* strings.Join(parts, sep)
RECURSIVE Join(_, _)
Join(parts, sep) ==
    IF Len(parts) = 0 THEN ""
    ELSE IF Len(parts) = 1 THEN parts[1]
    ELSE parts[1] \o sep \o Join(Tail(parts), sep)

-----------------------------------------------------------------------------
(* regexp *)

\* the characters regexp.QuoteMeta escapes
RegexSpecial ==
    {"\\", ".", "+", "*", "?", "(", ")", "|", "[", "]", "{", "}", "^", "$"}

\* regexp.QuoteMeta(s): each special character gets a backslash; the
\* character-wise map is computed by halves
RECURSIVE QuoteMeta(_)
QuoteMeta(s) ==
    IF s = "" THEN ""
    ELSE IF Len(s) = 1
         THEN (IF s \in RegexSpecial THEN "\\" \o s ELSE s)
         ELSE LET h == Len(s) \div 2 IN
              QuoteMeta(SubSeq(s, 1, h)) \o QuoteMeta(SubSeq(s, h + 1, Len(s)))

schemeToRegex_pathWildcardInHost(scheme) ==
    CHOOSE r \in UNION {
        {IF Len(parts) >= 4
         THEN "^" \o Join([parts EXCEPT ![3] = ReplaceAll(@, "\\*", ".*"),
                                        ![4] = ReplaceAll(@, "\\*", ".*")], "/") \o "$"
         ELSE IF Len(parts) = 3
         THEN "^" \o Join([parts EXCEPT ![3] = ReplaceAll(@, "\\*", ".*")], "/") \o "$"
         ELSE "^" \o ReplaceAll(pattern, "\\*", ".*") \o "$" :
           parts \in {SplitN(pattern, "/", 4)}} :
        pattern \in {QuoteMeta(scheme)}} : TRUE

schemeToRegex_oneOrMore(scheme) ==
    CHOOSE r \in UNION {
        {IF Len(parts) >= 4
         THEN "^" \o Join([parts EXCEPT ![3] = ReplaceAll(@, "\\*", "[^/]+"),
                                        ![4] = ReplaceAll(@, "\\*", ".*")], "/") \o "$"
         ELSE IF Len(parts) = 3
         THEN "^" \o Join([parts EXCEPT ![3] = ReplaceAll(@, "\\*", "[^/]+")], "/") \o "$"
         ELSE "^" \o ReplaceAll(pattern, "\\*", ".*") \o "$" :
           parts \in {SplitN(pattern, "/", 4)}} :
        pattern \in {QuoteMeta(scheme)}} : TRUE

schemeToRegex_unanchored(scheme) ==
    CHOOSE r \in UNION {
        {IF Len(parts) >= 4
         THEN Join([parts EXCEPT ![3] = ReplaceAll(@, "\\*", "[^/]*"),
                                 ![4] = ReplaceAll(@, "\\*", ".*")], "/") \o "$"
         ELSE IF Len(parts) = 3
         THEN Join([parts EXCEPT ![3] = ReplaceAll(@, "\\*", "[^/]*")], "/") \o "$"
         ELSE ReplaceAll(pattern, "\\*", ".*") \o "$" :
           parts \in {SplitN(pattern, "/", 4)}} :
        pattern \in {QuoteMeta(scheme)}} : TRUE

\* schemeToRegex(scheme): the regex source text for a scheme pattern.
\* parts[2] and parts[3] of the Go slice are parts[3] and parts[4] here;
\* pattern and parts are the function's locals, each assigned once.
schemeToRegex(scheme) ==
    CHOOSE r \in UNION {
        {IF Len(parts) >= 4
         THEN "^" \o Join([parts EXCEPT ![3] = ReplaceAll(@, "\\*", "[^/]*"),
                                        ![4] = ReplaceAll(@, "\\*", ".*")], "/") \o "$"
         ELSE IF Len(parts) = 3
         THEN "^" \o Join([parts EXCEPT ![3] = ReplaceAll(@, "\\*", "[^/]*")], "/") \o "$"
         ELSE "^" \o ReplaceAll(pattern, "\\*", ".*") \o "$" :
           parts \in {SplitN(pattern, "/", 4)}} :
        pattern \in {QuoteMeta(scheme)}} : TRUE

\* is the character at position t of the regex text quoted by a backslash:
\* the character before it is a backslash that is not itself quoted
RECURSIVE Escaped(_, _)
Escaped(p, t) ==
    t > 1 /\ Char(p, t - 1) = "\\" /\ ~Escaped(p, t - 1)

\* the literal text p[a..b] with the quoting backslashes removed
RECURSIVE Unquote(_, _, _)
Unquote(p, a, b) ==
    IF a > b THEN ""
    ELSE IF a = b
         THEN (IF Char(p, a) = "\\" /\ ~Escaped(p, a) THEN "" ELSE Char(p, a))
         ELSE LET h == (a + b) \div 2 IN
              Unquote(p, a, h) \o Unquote(p, h + 1, b)

\* regexp.Compile(pattern) for the syntax schemeToRegex emits: ^ and $
\* anchors, literal text (plain or \c quoted characters) and the repeated
\* classes [^/]* , [^/]+ and .* ; the compiled program is the sequence of
\* its instructions; ok = FALSE is the syntax error.
\* is position t of the regex text an operator character, one that no
\* backslash quotes
IsMeta(p, t) == Char(p, t) \in (RegexSpecial \ {"\\"}) /\ ~Escaped(p, t)

\* the first operator character at or after position i, Len(p) + 1 if none
NextMeta(p, i) ==
    CHOOSE t \in i..(Len(p) + 1) :
        /\ t = Len(p) + 1 \/ IsMeta(p, t)
        /\ \A u \in i..(t - 1) : ~IsMeta(p, u)

\* the instruction that starts at position i of the regex text and the
\* length n of its text; n = 0 is a syntax error
Token(p, i, e) ==
    IF e > i
    THEN IF Char(p, e - 1) = "\\" /\ ~Escaped(p, e - 1) /\ e > Len(p)
         THEN [n |-> 0, ins |-> <<>>]    \* trailing backslash
         ELSE [n |-> e - i, ins |-> [op |-> "lit", c |-> Unquote(p, i, e - 1)]]
    ELSE IF Char(p, i) = "^" THEN [n |-> 1, ins |-> [op |-> "bol", c |-> ""]]
    ELSE IF Char(p, i) = "$" THEN [n |-> 1, ins |-> [op |-> "eol", c |-> ""]]
    ELSE IF At(p, i, "[^/]*") THEN [n |-> 5, ins |-> [op |-> "star", c |-> "[^/]"]]
    ELSE IF At(p, i, "[^/]+") THEN [n |-> 5, ins |-> [op |-> "plus", c |-> "[^/]"]]
    ELSE IF At(p, i, ".*") THEN [n |-> 2, ins |-> [op |-> "star", c |-> "."]]
    ELSE [n |-> 0, ins |-> <<>>]

RECURSIVE CompileFrom(_, _)
CompileFrom(p, i) ==
    IF i > Len(p) THEN [ok |-> TRUE, prog |-> <<>>]
    ELSE CHOOSE r \in UNION {
             {IF tok.n = 0 THEN [ok |-> FALSE, prog |-> <<>>]
              ELSE [ok |-> rest.ok, prog |-> <<tok.ins>> \o rest.prog] :
                rest \in {IF tok.n = 0 THEN [ok |-> FALSE, prog |-> <<>>]
                          ELSE CompileFrom(p, i + tok.n)}} :
             tok \in {Token(p, i, NextMeta(p, i))}} : TRUE

\* one character against a class: "." is any character but newline,
\* [^/] is any character but "/"
ClassMatches(class, ch) ==
    IF class = "." THEN ch # "\n" ELSE ch # "/"

\* Regexp.MatchString: is there a match of prog from instruction i at
\* position j of s; a repetition tries every span of class characters
RECURSIVE Run(_, _, _, _)
Run(prog, s, i, j) ==
    IF i > Len(prog) THEN TRUE
    ELSE
    LET ins == prog[i]
        \* end positions of the spans of class characters that start at j
        Spans(min) == {e \in (j + min)..(Len(s) + 1) :
                         \A x \in j..(e - 1) : ClassMatches(ins.c, Char(s, x))}
    IN
    CASE ins.op = "bol"  -> j = 1 /\ Run(prog, s, i + 1, j)
      [] ins.op = "eol"  -> j = Len(s) + 1 /\ Run(prog, s, i + 1, j)
      [] ins.op = "lit"  -> At(s, j, ins.c) /\ Run(prog, s, i + 1, j + Len(ins.c))
      [] ins.op = "star" -> \E e \in Spans(0) : Run(prog, s, i + 1, e)
      [] ins.op = "plus" -> \E e \in Spans(1) : Run(prog, s, i + 1, e)

\* a compiled *regexp.Regexp is represented by its source text (re.String());
\* its program is recomputed from the text when it is run
regexpCompile(pattern) ==
    IF CompileFrom(pattern, 1).ok
    THEN [re |-> pattern, err |-> FALSE]
    ELSE [re |-> "", err |-> TRUE]

\* (*Regexp).MatchString(s): leftmost search, which the leading ^ pins to
\* the start of s
Search(prog, s) == \E j \in 1..(Len(s) + 1) : Run(prog, s, 1, j)

MatchString(re, s) == Search(CompileFrom(re, 1).prog, s)

-----------------------------------------------------------------------------
(* net/url: the query string of a request URL *)

\* the printable ASCII characters in byte order, from the space (byte 32);
\* the texts of the model hold no other bytes.  (A tab stands in the place
\* of byte 96, the backquote, which a TLA+ string cannot hold.)
Ascii ==
    " !\"#$%&'()*+,-./0123456789:;<=>?@ABCDEFGHIJKLMNOPQRSTUVWXYZ[\\]^_\tabcdefghijklmnopqrstuvwxyz{|}~"

ByteTable ==
    [c \in {Char(Ascii, i) : i \in 1..Len(Ascii)} |->
        31 + (CHOOSE i \in 1..Len(Ascii) : Char(Ascii, i) = c)]

ByteOf(c) == ByteTable[c]

UpperHex == "0123456789ABCDEF"

LowerHex == "0123456789abcdef"

\* ishex(c), unhex(c)
IsHex(c) == \E i \in 1..16 : Char(UpperHex, i) = c \/ Char(LowerHex, i) = c

UnHex(c) ==
    (CHOOSE i \in 1..16 : Char(UpperHex, i) = c \/ Char(LowerHex, i) = c) - 1

\* shouldEscape(c, encodeQueryComponent): all but letters, digits and -_.~
ShouldEscape(c) ==
    ~ \/ ByteOf(c) \in ByteOf("0")..ByteOf("9")
      \/ ByteOf(c) \in ByteOf("A")..ByteOf("Z")
      \/ ByteOf(c) \in ByteOf("a")..ByteOf("z")
      \/ c \in {"-", "_", ".", "~"}

\* what escape writes for each character
EscapeTable ==
    [c \in DOMAIN ByteTable |->
        IF ~ShouldEscape(c) THEN c
        ELSE IF c = " " THEN "+"
        ELSE "%" \o Char(UpperHex, (ByteOf(c) \div 16) + 1)
                 \o Char(UpperHex, (ByteOf(c) % 16) + 1)]

EscapeChar(c) == EscapeTable[c]

\* url.QueryEscape(s)
RECURSIVE QueryEscape(_)
QueryEscape(s) ==
    IF Len(s) = 0 THEN ""
    ELSE IF Len(s) = 1 THEN EscapeChar(s)
    ELSE QueryEscape(SubSeq(s, 1, Len(s) \div 2))
         \o QueryEscape(SubSeq(s, (Len(s) \div 2) + 1, Len(s)))

\* url.QueryUnescape(s) fails: a "%" that two hex digits do not follow
UnescapeErr(s) ==
    \E i \in 1..Len(s) :
        /\ Char(s, i) = "%"
        /\ ~ /\ i + 2 <= Len(s)
             /\ IsHex(Char(s, i + 1))
             /\ IsHex(Char(s, i + 2))

\* what position i of an escaped text stands for: the byte of a "%XX", a
\* space for "+", nothing for the two digits of a "%XX", else the character
UnescapeAt(s, i) ==
    IF (i > 1 /\ Char(s, i - 1) = "%") \/ (i > 2 /\ Char(s, i - 2) = "%")
    THEN ""
    ELSE IF Char(s, i) = "%"
    THEN Char(Ascii, 16 * UnHex(Char(s, i + 1)) + UnHex(Char(s, i + 2)) - 31)
    ELSE IF Char(s, i) = "+" THEN " "
    ELSE Char(s, i)

RECURSIVE UnescapeRange(_, _, _)
UnescapeRange(s, lo, hi) ==
    IF lo > hi THEN ""
    ELSE IF lo = hi THEN UnescapeAt(s, lo)
    ELSE UnescapeRange(s, lo, (lo + hi) \div 2)
         \o UnescapeRange(s, ((lo + hi) \div 2) + 1, hi)

\* url.QueryUnescape(s) of a text it accepts
QueryUnescape(s) == UnescapeRange(s, 1, Len(s))

\* the text of a "key=value" setting before and after its first "="
RawKey(setting) ==
    IF Contains(setting, "=")
    THEN SubSeq(setting, 1, IndexFrom(setting, "=", 1) - 1) ELSE setting

RawValue(setting) ==
    IF Contains(setting, "=")
    THEN SubSeq(setting, IndexFrom(setting, "=", 1) + 1, Len(setting)) ELSE ""

\* the settings of a raw query, between its "&"
Settings(raw) == SplitN(raw, "&", Len(raw) + 1)

\* parseQuery keeps the setting: it is not empty, holds no semicolon, and
\* its key and its value unescape
WellFormed(setting) ==
    /\ setting # ""
    /\ ~Contains(setting, ";")
    /\ ~UnescapeErr(RawKey(setting))
    /\ ~UnescapeErr(RawValue(setting))

\* (*url.URL).Query(): the (key, value) pairs of the settings parseQuery
\* keeps, in their order; the errors of the others are discarded
ParseQuery(raw) ==
    CHOOSE r \in
        {[i \in DOMAIN kept |->
             [key   |-> QueryUnescape(RawKey(kept[i])),
              value |-> QueryUnescape(RawValue(kept[i]))]] :
           kept \in {SelectSeq(Settings(raw), WellFormed)}} : TRUE

\* the pairs of one key, in their order
WithKey(values, key) == SelectSeq(values, LAMBDA p : p.key = key)

WithoutKey(values, key) == SelectSeq(values, LAMBDA p : p.key # key)

QueryAdd(values, key, value) ==
    Append(values, [key |-> key, value |-> value])

\* url.Values.Set(key, value): the key has this one value
QuerySet(values, key, value) ==
    Append(WithoutKey(values, key), [key |-> key, value |-> value])

\* a < b as Go compares strings, byte by byte
StrLess(a, b) ==
    \E i \in 1..(Len(a) + 1) :
        /\ i <= Len(b)
        /\ SubSeq(a, 1, i - 1) = SubSeq(b, 1, i - 1)
        /\ i <= Len(a) => ByteOf(Char(a, i)) < ByteOf(Char(b, i))

\* the keys in sorted order
RECURSIVE SortedKeys(_)
SortedKeys(keys) ==
    IF keys = {} THEN <<>>
    ELSE <<CHOOSE k \in keys : \A x \in keys \ {k} : StrLess(k, x)>>
         \o SortedKeys(keys \ {CHOOSE k \in keys : \A x \in keys \ {k} : StrLess(k, x)})

RECURSIVE EncodeKeys(_, _)
EncodeKeys(values, keys) ==
    IF keys = <<>> THEN <<>>
    ELSE [i \in DOMAIN WithKey(values, Head(keys)) |->
             QueryEscape(Head(keys)) \o "="
                 \o QueryEscape(WithKey(values, Head(keys))[i].value)]
         \o EncodeKeys(values, Tail(keys))

\* url.Values.Encode(): "key=value" settings joined by "&", sorted by key
QueryEncode(values) ==
    Join(EncodeKeys(values, SortedKeys({values[i].key : i \in DOMAIN values})), "&")

\* url.Parse(s): the text before the query, the raw query and the fragment
UrlFragment(s) ==
    IF Contains(s, "#") THEN SubSeq(s, IndexFrom(s, "#", 1) + 1, Len(s)) ELSE ""

UrlBeforeFragment(s) ==
    IF Contains(s, "#") THEN SubSeq(s, 1, IndexFrom(s, "#", 1) - 1) ELSE s

RawQuery(s) ==
    IF Contains(UrlBeforeFragment(s), "?")
    THEN SubSeq(UrlBeforeFragment(s), IndexFrom(s, "?", 1) + 1,
                Len(UrlBeforeFragment(s)))
    ELSE ""

UrlBeforeQuery(s) ==
    IF Contains(UrlBeforeFragment(s), "?")
    THEN SubSeq(s, 1, IndexFrom(s, "?", 1) - 1) ELSE UrlBeforeFragment(s)

fetchURL_addParameters(ep, url) ==
    UrlBeforeQuery(ep) \o "?"
        \o QueryEncode(QueryAdd(QueryAdd(ParseQuery(RawQuery(ep)), "url", url),
                                "format", "json"))
        \o (IF UrlFragment(ep) = "" THEN "" ELSE "#" \o UrlFragment(ep))

\* fetchOEmbed: oembedURL.String() once the query has url and format set
fetchURL(ep, url) ==
    UrlBeforeQuery(ep) \o "?"
        \o QueryEncode(QuerySet(QuerySet(ParseQuery(RawQuery(ep)), "url", url),
                                "format", "json"))
        \o (IF UrlFragment(ep) = "" THEN "" ELSE "#" \o UrlFragment(ep))

-----------------------------------------------------------------------------
(* provider registry *)

OEmbedEndpoint(schemes, url, disc) ==
    [Schemes |-> schemes, URL |-> url, Discovery |-> disc]

OEmbedProvider(name, url, endpoints) ==
    [Name |-> name, URL |-> url, Endpoints |-> endpoints]

\* the zero value of OEmbedProvider
ZeroProvider == [Name |-> "", URL |-> "", Endpoints |-> <<>>]

\* the initial value of knownProviders
BuiltinProviders == <<
    OEmbedProvider("YouTube", "https://www.youtube.com", <<
        OEmbedEndpoint(<<"https://*.youtube.com/watch*",
                         "https://*.youtube.com/v/*",
                         "https://youtu.be/*",
                         "https://*.youtube.com/shorts/*">>,
                       "https://www.youtube.com/oembed", TRUE)>>),
    OEmbedProvider("Vimeo", "https://vimeo.com", <<
        OEmbedEndpoint(<<"https://vimeo.com/*",
                         "https://vimeo.com/groups/*/videos/*",
                         "https://player.vimeo.com/video/*">>,
                       "https://vimeo.com/api/oembed.json", TRUE)>>),
    OEmbedProvider("Twitter", "https://twitter.com", <<
        OEmbedEndpoint(<<"https://twitter.com/*/status/*",
                         "https://twitter.com/*/statuses/*",
                         "https://*.twitter.com/*/status/*",
                         "https://x.com/*/status/*">>,
                       "https://publish.twitter.com/oembed", TRUE)>>),
    OEmbedProvider("Instagram", "https://instagram.com", <<
        OEmbedEndpoint(<<"http://instagram.com/*/p/*",
                         "http://www.instagram.com/*/p/*",
                         "https://instagram.com/*/p/*",
                         "https://www.instagram.com/*/p/*",
                         "http://instagram.com/p/*",
                         "http://www.instagram.com/p/*",
                         "https://instagram.com/p/*",
                         "https://www.instagram.com/p/*",
                         "https://instagram.com/reel/*",
                         "https://www.instagram.com/reel/*">>,
                       "https://graph.facebook.com/v16.0/instagram_oembed", FALSE)>>),
    OEmbedProvider("Flickr", "https://www.flickr.com", <<
        OEmbedEndpoint(<<"http://*.flickr.com/photos/*",
                         "http://flic.kr/p/*",
                         "https://*.flickr.com/photos/*",
                         "https://flic.kr/p/*">>,
                       "https://www.flickr.com/services/oembed/", TRUE)>>),
    OEmbedProvider("SoundCloud", "https://soundcloud.com", <<
        OEmbedEndpoint(<<"https://soundcloud.com/*",
                         "https://soundcloud.app.goo.gl/*",
                         "https://on.soundcloud.com/*">>,
                       "https://soundcloud.com/oembed", TRUE)>>),
    OEmbedProvider("Spotify", "https://spotify.com", <<
        OEmbedEndpoint(<<"https://open.spotify.com/*",
                         "https://play.spotify.com/*",
                         "https://open.spotify.com/track/*",
                         "https://open.spotify.com/album/*",
                         "https://open.spotify.com/playlist/*",
                         "https://open.spotify.com/artist/*">>,
                       "https://open.spotify.com/oembed", TRUE)>>),
    OEmbedProvider("TikTok", "https://www.tiktok.com", <<
        OEmbedEndpoint(<<"https://www.tiktok.com/*/video/*",
                         "https://www.tiktok.com/@*/video/*",
                         "https://m.tiktok.com/*/video/*",
                         "https://vm.tiktok.com/*">>,
                       "https://www.tiktok.com/oembed", TRUE)>>) >>

-----------------------------------------------------------------------------
(* HTML documents and discovery *)

\* html.Node: Type, Data (the tag name), Attr and the children in order
Element(tag, attr, children) ==
    [Type |-> "ElementNode", Data |-> tag, Attr |-> attr, Children |-> children]

Text(t) == [Type |-> "TextNode", Data |-> t, Attr |-> <<>>, Children |-> <<>>]

Document(children) ==
    [Type |-> "DocumentNode", Data |-> "", Attr |-> <<>>, Children |-> children]

Attribute(k, v) == [Key |-> k, Val |-> v]

\* the value the attribute loop leaves in a variable: the Val of the last
\* attribute with that Key, "" when there is none
AttrVal(n, key) ==
    LET I == {i \in DOMAIN n.Attr : n.Attr[i].Key = key} IN
    IF I = {} THEN ""
    ELSE n.Attr[CHOOSE i \in I : \A j \in I : j <= i].Val

RECURSIVE findOEmbedLink_ignoreType(_)
findOEmbedLink_ignoreType(n) ==
    IF /\ n.Type = "ElementNode" /\ n.Data = "link"
       /\ AttrVal(n, "href") # ""
    THEN AttrVal(n, "href")
    ELSE LET res == [i \in DOMAIN n.Children |->
                        findOEmbedLink_ignoreType(n.Children[i])]
             I   == {i \in DOMAIN res : res[i] # ""}
         IN  IF I = {} THEN "" ELSE res[CHOOSE i \in I : \A j \in I : i <= j]

RECURSIVE findOEmbedLink_lastChild(_)
findOEmbedLink_lastChild(n) ==
    IF /\ n.Type = "ElementNode" /\ n.Data = "link"
       /\ AttrVal(n, "rel") = "alternate"
       /\ AttrVal(n, "type") \in {"application/json+oembed", "text/json+oembed"}
    THEN AttrVal(n, "href")
    ELSE LET res == [i \in DOMAIN n.Children |->
                        findOEmbedLink_lastChild(n.Children[i])]
             I   == {i \in DOMAIN res : res[i] # ""}
         IN  IF I = {} THEN "" ELSE res[CHOOSE i \in I : \A j \in I : j <= i]

\* findOEmbedLink(n): depth-first, the node before its children, the
\* children in order; the first non-empty result wins
RECURSIVE findOEmbedLink(_)
findOEmbedLink(n) ==
    IF /\ n.Type = "ElementNode" /\ n.Data = "link"
       /\ AttrVal(n, "rel") = "alternate"
       /\ AttrVal(n, "type") \in {"application/json+oembed", "text/json+oembed"}
    THEN AttrVal(n, "href")
    ELSE LET res == [i \in DOMAIN n.Children |-> findOEmbedLink(n.Children[i])]
             I   == {i \in DOMAIN res : res[i] # ""}
         IN  IF I = {} THEN "" ELSE res[CHOOSE i \in I : \A j \in I : i <= j]

\* url.Parse(s) fails: of the parser's rejections the model keeps the one
\* for a text that starts with a colon ("missing protocol scheme")
urlParseErr(s) == HasPrefix(s, ":")

\* getScheme(rawURL) of url.Parse: the text before the first ":" when it is a
\* letter followed by letters, digits, "+", "-" and "."; "" otherwise
getScheme(s) ==
    LET IsLetter(c) == ByteOf(c) \in (65..90) \cup (97..122)
        IsSchemeChar(c) == IsLetter(c) \/ ByteOf(c) \in 48..57 \/ c \in {"+", "-", "."}
        Stops == {i \in 1..Len(s) : ~IsSchemeChar(Char(s, i))}
    IN  IF s = "" \/ ~IsLetter(Char(s, 1)) \/ Stops = {} THEN ""
        ELSE CHOOSE r \in
                 {IF Char(s, i) = ":" THEN SubSeq(s, 1, i - 1) ELSE "" :
                    i \in {CHOOSE i \in Stops : \A k \in Stops : i <= k}} : TRUE

\* strings.ToLower on ASCII text
RECURSIVE ToLower(_)
ToLower(s) ==
    IF s = "" THEN ""
    ELSE (IF ByteOf(Char(s, 1)) \in 65..90
          THEN Char(Ascii, ByteOf(Char(s, 1)) + 1)
          ELSE Char(s, 1)) \o ToLower(SubSeq(s, 2, Len(s)))

\* the Scheme field of the URL url.Parse returns
UrlScheme(s) == ToLower(getScheme(s))

\* (*url.URL).IsAbs(): the text has a scheme, a non-empty run of characters
\* before the first ":" that comes before any "/", "?" or "#"
IsAbs(s) ==
    \E i \in 2..Len(s) :
        /\ Char(s, i) = ":"
        /\ \A x \in 1..(i - 1) : Char(s, x) \notin {":", "/", "?", "#"}

\* base.ResolveReference(ref).String() for a reference that is an absolute
\* path ("/..."): the scheme and authority of base followed by ref
ResolveReference(base, ref) ==
    LET parts == SplitN(base, "/", 4) IN
    parts[1] \o "//" \o parts[3] \o ref

StatusOK == 200

\* an HTTP exchange as httpClient.Do reports it: a transport error, or a
\* status code and a body
TransportError == [err |-> TRUE, StatusCode |-> 0, Body |-> Nil]

Response(code, body) == [err |-> FALSE, StatusCode |-> code, Body |-> body]

\* discoverOEmbedEndpoint(targetURL) once httpClient.Do has returned resp:
\* (endpoint, err)
discoverOEmbedEndpoint_ignoreStatus(url, resp) ==
    IF resp.err
    THEN [endpoint |-> "", err |-> TRUE]
    ELSE CHOOSE r \in
             {IF found # "" /\ ~urlParseErr(url) /\ ~urlParseErr(found)
                 /\ ~IsAbs(found)
              THEN [endpoint |-> ResolveReference(url, found), err |-> FALSE]
              ELSE [endpoint |-> found, err |-> FALSE] :
                found \in {findOEmbedLink(resp.Body)}} : TRUE

discoverOEmbedEndpoint(url, resp) ==
    IF resp.err \/ resp.StatusCode # StatusOK
    THEN [endpoint |-> "", err |-> TRUE]
    ELSE CHOOSE r \in
             {IF found # "" /\ ~urlParseErr(url) /\ ~urlParseErr(found)
                 /\ ~IsAbs(found)
              THEN [endpoint |-> ResolveReference(url, found), err |-> FALSE]
              ELSE [endpoint |-> found, err |-> FALSE] :
                found \in {findOEmbedLink(resp.Body)}} : TRUE

\* json.Decoder.Decode into an OEmbed: the bodies that are not JSON fail
NotJSON == "<html>not json</html>"

fetchOEmbed_ignoreDecodeError(resp) ==
    IF resp.err \/ resp.StatusCode # StatusOK
    THEN [oembed |-> Nil, err |-> TRUE]
    ELSE [oembed |-> resp.Body, err |-> FALSE]

\* fetchOEmbed(endpoint, targetURL) once httpClient.Do has returned resp:
\* (oembed, err)
fetchOEmbed(resp) ==
    IF resp.err \/ resp.StatusCode # StatusOK \/ resp.Body = NotJSON
    THEN [oembed |-> Nil, err |-> TRUE]
    ELSE [oembed |-> resp.Body, err |-> FALSE]

\* the error value ExtractOEmbed returns
NotFoundError(url) == "oEmbed endpoint not found for URL: " \o url

normalizeURL_always(url) == "https://" \o url

\* normalizeURL(targetURL)
normalizeURL(url) ==
    IF ~Contains(url, "://") THEN "https://" \o url ELSE url

-----------------------------------------------------------------------------
(* inputs *)

\* custom providers added at run time beyond the built-in ones
MaxCustom == 2

\* providers handed to AddCustomProvider: the documented example, one whose
\* second endpoint overlaps built-in schemes, one whose endpoint has the
\* zero value for URL, and one that has the name of a built-in provider
CustomProviders == {
    OEmbedProvider("MyService", "https://myservice.com", <<
        OEmbedEndpoint(<<"https://myservice.com/videos/*">>,
                       "https://myservice.com/oembed", FALSE)>>),
    OEmbedProvider("Mirror", "https://mirror.example", <<
        OEmbedEndpoint(<<"https://mirror.example/*">>,
                       "https://mirror.example/a", FALSE),
        OEmbedEndpoint(<<"https://*.youtube.com/*", "https://myservice.com/*">>,
                       "https://mirror.example/oembed", FALSE)>>),
    OEmbedProvider("Draft", "https://example.com", <<
        OEmbedEndpoint(<<"https://example.com/*">>, "", FALSE)>>),
    OEmbedProvider("YouTube", "https://yt.example", <<
        OEmbedEndpoint(<<"https://yt.example/*">>,
                       "https://yt.example/oembed", TRUE)>>) }

\* target URLs handed to the resolver
TargetURLs == {
    "https://www.youtube.com/watch?v=123",
    "youtu.be/abc",
    "https://myservice.com/videos/1",
    "https://example.com/page",
    "example.com/x",
    "://bad" }

\* href values of advertised discovery links
Hrefs == {
    "https://example.com/oembed?url=https://example.com/video/123",
    "/oembed",
    ":bad",
    "" }

DocWithoutOEmbed ==
    Document(<<Element("html", <<>>, <<
        Element("head", <<>>, <<Element("title", <<>>, <<Text("Test Page")>>)>>),
        Element("body", <<>>, <<Element("h1", <<>>, <<Text("No oEmbed here")>>)>>)>>)>>)

DocStylesheet ==
    Document(<<Element("html", <<>>, <<
        Element("head", <<>>, <<
            Element("link", <<Attribute("rel", "stylesheet"),
                              Attribute("href", "/style.css")>>, <<>>)>>),
        Element("body", <<>>, <<>>)>>)>>)

DocWithOEmbed(href) ==
    Document(<<Element("html", <<>>, <<
        Element("head", <<>>, <<
            Element("title", <<>>, <<Text("Test Page")>>),
            Element("link", <<Attribute("rel", "alternate"),
                              Attribute("type", "application/json+oembed"),
                              Attribute("href", href),
                              Attribute("title", "Test Video oEmbed")>>, <<>>)>>),
        Element("body", <<>>, <<Element("h1", <<>>, <<Text("Test Content")>>)>>)>>)>>)

Docs == {DocWithoutOEmbed, DocStylesheet} \cup {DocWithOEmbed(h) : h \in Hrefs}

\* what a server may answer to the page request
PageResponses ==
    {TransportError, Response(404, DocWithOEmbed("/oembed"))}
    \cup {Response(StatusOK, d) : d \in Docs}

\* decoded oEmbed records
Records == {"video: Test Video", "photo: Test Photo"}

\* what a server may answer to the oEmbed request
OEmbedResponses ==
    {TransportError, Response(404, NotJSON), Response(StatusOK, NotJSON)}
    \cup {Response(StatusOK, r) : r \in Records}

-----------------------------------------------------------------------------
(* scheme matcher and its cache *)

SchemesOf(provider) ==
    UNION {{provider.Endpoints[e].Schemes[k] :
               k \in DOMAIN provider.Endpoints[e].Schemes} :
             e \in DOMAIN provider.Endpoints}

\* scheme patterns with a wildcard in the host: a registered one, and the
\* ones without a path wildcard
MatchSchemes == {"https://*.youtube.com/watch*",
                 "https://*.youtube.com/watch",
                 "https://*.youtube.com/x"}

\* scheme patterns of the edge cases: the empty pattern, a lone wildcard, a
\* pattern without a wildcard and the same with a path wildcard
EdgeSchemes == {"", "*", "https://youtu.be/abc", "https://youtu.be/*"}

\* The compile and match results for the schemes and URLs of the inputs are
\* tabulated once; the tables hold the values of the operators above.
TabulatedSchemes ==
    UNION {SchemesOf(BuiltinProviders[i]) : i \in DOMAIN BuiltinProviders}
    \cup UNION {SchemesOf(p) : p \in CustomProviders}
    \cup MatchSchemes \cup EdgeSchemes

TabulatedURLs == TargetURLs \cup {normalizeURL(u) : u \in TargetURLs}

CompileTable ==
    [sc \in TabulatedSchemes |-> regexpCompile(schemeToRegex(sc))]

MatchTable ==
    [re \in {CompileTable[sc].re : sc \in TabulatedSchemes} |->
        [u \in TabulatedURLs |-> MatchString(re, u)]]

ProgramTable ==
    [re \in {CompileTable[sc].re : sc \in TabulatedSchemes} |->
        CompileFrom(re, 1).prog]

\* regexp.Compile(schemeToRegex(scheme))
CompileScheme(scheme) ==
    IF scheme \in TabulatedSchemes
    THEN CompileTable[scheme]
    ELSE regexpCompile(schemeToRegex(scheme))

\* re.MatchString(url)
Matches(re, url) ==
    IF re \in DOMAIN MatchTable /\ url \in TabulatedURLs
    THEN MatchTable[re][url]
    ELSE IF re \in DOMAIN ProgramTable
         THEN Search(ProgramTable[re], url)
         ELSE MatchString(re, url)

\* getCompiledRegex(scheme): the cached regex, or a newly compiled one that
\* is stored in the cache; re = Nil when the pattern does not compile.
\* (Sequential view: the two lock sections run without interference.)
getCompiledRegex(cache, scheme) ==
    IF scheme \in DOMAIN cache
    THEN [re |-> cache[scheme], cache |-> cache]
    ELSE CHOOSE r \in
             {IF c.err
              THEN [re |-> Nil, cache |-> cache]
              ELSE [re |-> c.re, cache |-> (scheme :> c.re) @@ cache] :
                c \in {CompileScheme(scheme)}} : TRUE

matchScheme_rejectEmpty(cache, url, scheme) ==
    CHOOSE r \in
        {IF g.re = Nil \/ url = "" \/ scheme = ""
         THEN [match |-> FALSE, cache |-> g.cache]
         ELSE [match |-> Matches(g.re, url), cache |-> g.cache] :
           g \in {getCompiledRegex(cache, scheme)}} : TRUE

\* matchScheme(targetURL, scheme), with the cache it leaves behind
matchScheme(cache, url, scheme) ==
    CHOOSE r \in
        {IF g.re = Nil
         THEN [match |-> FALSE, cache |-> g.cache]
         ELSE [match |-> Matches(g.re, url), cache |-> g.cache] :
           g \in {getCompiledRegex(cache, scheme)}} : TRUE

\* clearRegexCache(): a fresh empty map
EmptyCache == << >>

\* the positions (provider, endpoint, scheme) of a provider list, and the
\* order in which the three nested range loops visit them
SchemePositions(providers) ==
    UNION {UNION {{<<p, e, k>> : k \in DOMAIN providers[p].Endpoints[e].Schemes} :
                    e \in DOMAIN providers[p].Endpoints} :
             p \in DOMAIN providers}

Before(a, b) ==
    \/ a[1] < b[1]
    \/ a[1] = b[1] /\ a[2] < b[2]
    \/ a[1] = b[1] /\ a[2] = b[2] /\ a[3] <= b[3]

SchemeAt(providers, pos) == providers[pos[1]].Endpoints[pos[2]].Schemes[pos[3]]

EndpointAt(providers, pos) == providers[pos[1]].Endpoints[pos[2]]

\* the first position, in loop order, whose scheme matches url; <<>> when
\* the loops run out
FirstMatch(providers, cache, url) ==
    CHOOSE r \in
        {IF Hits = {} THEN <<>>
         ELSE CHOOSE q \in Hits : \A h \in Hits : Before(q, h) :
           Hits \in {{q \in SchemePositions(providers) :
                        matchScheme(cache, url, SchemeAt(providers, q)).match}}} :
        TRUE

\* the schemes the loops hand to matchScheme before they return
VisitedSchemes(providers, first) ==
    {SchemeAt(providers, q) :
        q \in {v \in SchemePositions(providers) : first = <<>> \/ Before(v, first)}}

\* the cache after getCompiledRegex has run on each of the schemes
CompileAll(cache, schemes) ==
    CHOOSE r \in
        {cache @@ [sc \in {v \in schemes : compiled[v] # Nil} |-> compiled[sc]] :
           compiled \in {[sc \in schemes |-> getCompiledRegex(cache, sc).re]}} :
        TRUE

findOEmbedEndpoint_firstSchemeOnly(providers, cache, url) ==
    LET All  == {q \in SchemePositions(providers) : q[3] = 1}
        Hits == {q \in All : matchScheme(cache, url, SchemeAt(providers, q)).match}
        new  == [sc \in {SchemeAt(providers, q) : q \in All} |->
                    getCompiledRegex(cache, sc).re]
    IN  IF Hits = {}
        THEN [endpoint |-> "", cache |-> cache @@ new]
        ELSE LET first == CHOOSE q \in Hits : \A r \in Hits : Before(q, r) IN
             [endpoint |-> EndpointAt(providers, first).URL, cache |-> cache @@ new]

findOEmbedEndpoint_lastMatch(providers, cache, url) ==
    LET All  == SchemePositions(providers)
        Hits == {q \in All : matchScheme(cache, url, SchemeAt(providers, q)).match}
        new  == [sc \in {SchemeAt(providers, q) : q \in All} |->
                    getCompiledRegex(cache, sc).re]
    IN  IF Hits = {}
        THEN [endpoint |-> "", cache |-> cache @@ new]
        ELSE LET last == CHOOSE q \in Hits : \A r \in Hits : Before(r, q) IN
             [endpoint |-> EndpointAt(providers, last).URL, cache |-> cache @@ new]

findOEmbedEndpoint_discoveryOnly(providers, cache, url) ==
    CHOOSE r \in
        {[endpoint |-> IF first = <<>> THEN ""
                       ELSE IF ~EndpointAt(providers, first).Discovery THEN ""
                       ELSE EndpointAt(providers, first).URL,
          cache    |-> CompileAll(cache, VisitedSchemes(providers, first))] :
           first \in {FirstMatch(providers, cache, url)}} : TRUE

\* findOEmbedEndpoint(targetURL): the URL of the endpoint of the first
\* scheme, in loop order, that matches; "" when the loops run out.  Every
\* scheme the loops visit is compiled into the cache.
findOEmbedEndpoint(providers, cache, url) ==
    CHOOSE r \in
        {[endpoint |-> IF first = <<>> THEN ""
                       ELSE EndpointAt(providers, first).URL,
          cache    |-> CompileAll(cache, VisitedSchemes(providers, first))] :
           first \in {FirstMatch(providers, cache, url)}} : TRUE

\* GetKnownProviders(): a new slice holding copies of the provider values
GetKnownProviders(providers) == providers

\* ProviderCount()
ProviderCount(providers) == Len(providers)

\* IsProviderSupported(providerName)
IsProviderSupported(providers, name) ==
    \E i \in DOMAIN providers : providers[i].Name = name

GetProviderByName_last(providers, name) ==
    IF \E i \in DOMAIN providers : providers[i].Name = name
    THEN [nil |-> FALSE,
          val |-> providers[CHOOSE i \in DOMAIN providers :
                               /\ providers[i].Name = name
                               /\ \A j \in DOMAIN providers :
                                     providers[j].Name = name => j <= i]]
    ELSE [nil |-> TRUE, val |-> ZeroProvider]

\* GetProviderByName(name): a pointer to a copy of the first provider with
\* that name, or the nil pointer
GetProviderByName(providers, name) ==
    IF \E i \in DOMAIN providers : providers[i].Name = name
    THEN [nil |-> FALSE,
          val |-> providers[CHOOSE i \in DOMAIN providers :
                               /\ providers[i].Name = name
                               /\ \A j \in DOMAIN providers :
                                     providers[j].Name = name => i <= j]]
    ELSE [nil |-> TRUE, val |-> ZeroProvider]

-----------------------------------------------------------------------------
(* goroutines and regexCacheMutex *)

\* goroutines calling into the package at the same time
MaxGoroutines == 2

Goroutine == 1..MaxGoroutines

\* a *regexp.Regexp: the text it was compiled from and, as the identity of
\* the object, the goroutine whose regexp.Compile made it; the nil pointer
NilRegexp == [text |-> Nil, by |-> 0]

\* a goroutine outside every call
NotStarted ==
    [pc |-> "idle", op |-> "none", url |-> "", scheme |-> "",
     re |-> NilRegexp, ret |-> FALSE, cleared |-> FALSE,
     provider |-> ZeroProvider, n |-> 0, list |-> <<>>, ref |-> "none"]

\* the zero value of sync.RWMutex
Unlocked == [readers |-> {}, writer |-> 0]

NoGoroutine ==
    /\ goroutines = [g \in Goroutine |-> NotStarted]
    /\ regexCacheMutex = Unlocked
    /\ cacheStores = << >>

-----------------------------------------------------------------------------
(* Client and its options *)

StrategyAuto == 0

StrategyOEmbedFirst == 1

StrategyHTMLOnly == 2

\* the options of NewClient that set a field of the Client
WithMaxRedirects(max) == [field |-> "maxRedirects", max |-> max]

WithAutoOEmbed(auto) == [field |-> "autoOEmbed", auto |-> auto]

WithStrategy(strategy) == [field |-> "strategy", strategy |-> strategy]

\* NewClient(opts...): the defaults with the options applied in order
RECURSIVE NewClient(_)
NewClient(opts) ==
    IF opts = <<>>
    THEN [maxRedirects |-> 10, autoOEmbed |-> TRUE, strategy |-> StrategyAuto]
    ELSE CHOOSE r \in
             {IF o.field = "maxRedirects" THEN [c EXCEPT !.maxRedirects = o.max]
              ELSE IF o.field = "autoOEmbed" THEN [c EXCEPT !.autoOEmbed = o.auto]
              ELSE [c EXCEPT !.strategy = o.strategy] :
                o \in {opts[Len(opts)]},
                c \in {NewClient(SubSeq(opts, 1, Len(opts) - 1))}} : TRUE

\* the CheckRedirect policy NewClient installs: an error when the requests
\* made so far are maxRedirects or more
CheckRedirect(c, via) == via >= c.maxRedirects

\* the *Metadata a call returns: nil, or the fields the callers of the
\* oEmbed code read
NilMetadata == [nil |-> TRUE, URL |-> "", OEmbed |-> Nil]

Metadata(url, oembed) == [nil |-> FALSE, URL |-> url, OEmbed |-> oembed]

\* no Client.Extract call is under way.  url is the URL of the request
\* httpClient.Do has out, via the number of requests it has made.
NoExtract ==
    [pc |-> "idle", arg |-> "", targetURL |-> "", strategy |-> StrategyAuto,
     url |-> "", via |-> 0, metadata |-> NilMetadata, err |-> Nil]

DefaultClient ==
    /\ client = NewClient(<<>>)
    /\ extract = NoExtract

-----------------------------------------------------------------------------
(* Client.ExtractOEmbed *)

NoCall == [op |-> "none", url |-> "", ret |-> FALSE]

NotCalled == [called |-> FALSE, match |-> FALSE]

NoResult == [oembed |-> Nil, err |-> Nil]

NoDiscovery == [endpoint |-> "", err |-> FALSE, called |-> FALSE]

\* the response slot of a request httpClient.Do has not yet returned from
Pending == [err |-> FALSE, StatusCode |-> 0, Body |-> "<pending>"]

\* the request of fetchOEmbed(ep, url): GET is the URL it fetches
OEmbedRequest(ep, url) ==
    [kind |-> "oembed", url |-> ep, target |-> url, GET |-> fetchURL(ep, url),
     resp |-> Pending]

PageRequest(url) ==
    [kind |-> "page", url |-> url, target |-> "", GET |-> url, resp |-> Pending]

\* the last request of the log with its response filled in
Answered(reqs, resp) == [reqs EXCEPT ![Len(reqs)].resp = resp]

Init ==
    /\ knownProviders = BuiltinProviders
    /\ regexCache = EmptyCache
    /\ pc = "idle"
    /\ arg = ""
    /\ targetURL = ""
    /\ endpoint = ""
    /\ discovered = NoDiscovery
    /\ requests = <<>>
    /\ result = NoResult
    /\ query = NoCall
    /\ mUrl = ""
    /\ mScheme = ""
    /\ mResult = NotCalled
    /\ mLen = 0
    /\ NoGoroutine
    /\ DefaultClient

\* the return of the not-found error (the last statement of ExtractOEmbed)
ReturnNotFound(url) ==
    /\ pc' = "done"
    /\ result' = [oembed |-> Nil, err |-> NotFoundError(url)]

\* the return of a record
ReturnRecord(rec) ==
    /\ pc' = "done"
    /\ result' = [oembed |-> rec, err |-> Nil]

\* step 2 up to its HTTP request: discoverOEmbedEndpoint builds the request
\* (http.NewRequest fails on a URL that does not parse) and hands it to
\* httpClient.Do
BeginDiscovery(url, reqs) ==
    IF urlParseErr(url)
    THEN /\ discovered' = [endpoint |-> "", err |-> TRUE, called |-> TRUE]
         /\ requests' = reqs
         /\ ReturnNotFound(url)
    ELSE /\ discovered' = NoDiscovery
         /\ requests' = Append(reqs, PageRequest(url))
         /\ pc' = "discover"
         /\ result' = NoResult

\* a call of Client.ExtractOEmbed(u) up to its first HTTP request
ExtractOEmbed(u) ==
    /\ pc = "idle"
    /\ \E url \in {normalizeURL(u)} :
       \E f \in {findOEmbedEndpoint(knownProviders, regexCache, url)} :
           /\ arg' = u
           /\ targetURL' = url
           /\ endpoint' = f.endpoint
           /\ regexCache' = f.cache
           /\ IF f.endpoint # "" /\ ~urlParseErr(f.endpoint)
              THEN /\ requests' = <<OEmbedRequest(f.endpoint, url)>>
                   /\ pc' = "fetchKnown"
                   /\ discovered' = NoDiscovery
                   /\ result' = NoResult
              ELSE BeginDiscovery(url, <<>>)
    /\ query' = NoCall
    /\ UNCHANGED <<knownProviders, mUrl, mScheme, mResult, mLen, Concurrent, client, extract>>

KnownResponse_noReturn(resp) ==
    /\ pc = "fetchKnown"
    /\ BeginDiscovery(targetURL, Answered(requests, resp))
    /\ UNCHANGED <<knownProviders, regexCache, arg, targetURL, endpoint, query,
                   mUrl, mScheme, mResult, mLen, Concurrent, client, extract>>

KnownResponse_returnError(resp) ==
    /\ pc = "fetchKnown"
    /\ LET f == fetchOEmbed(resp) IN
       IF ~f.err
       THEN ReturnRecord(f.oembed)
       ELSE /\ pc' = "done"
            /\ result' = [oembed |-> Nil, err |-> "oEmbed endpoint returned an error"]
    /\ requests' = Answered(requests, resp)
    /\ UNCHANGED <<knownProviders, regexCache, arg, targetURL, endpoint, query,
                   discovered, mUrl, mScheme, mResult, mLen, Concurrent, client, extract>>

KnownResponse_retry(resp) ==
    /\ pc = "fetchKnown"
    /\ LET f == fetchOEmbed(resp) IN
       IF ~f.err
       THEN /\ ReturnRecord(f.oembed)
            /\ requests' = Answered(requests, resp)
            /\ UNCHANGED discovered
       ELSE IF Len(requests) < 2
       THEN /\ requests' = Append(Answered(requests, resp),
                                  OEmbedRequest(endpoint, targetURL))
            /\ UNCHANGED <<pc, result, discovered>>
       ELSE BeginDiscovery(targetURL, Answered(requests, resp))
    /\ UNCHANGED <<knownProviders, regexCache, arg, targetURL, endpoint, query,
                   mUrl, mScheme, mResult, mLen, Concurrent, client, extract>>

\* the known endpoint answers: return its record, or go on to discovery
KnownResponse(resp) ==
    /\ pc = "fetchKnown"
    /\ LET f == fetchOEmbed(resp) IN
       IF ~f.err
       THEN /\ ReturnRecord(f.oembed)
            /\ requests' = Answered(requests, resp)
            /\ UNCHANGED discovered
       ELSE BeginDiscovery(targetURL, Answered(requests, resp))
    /\ UNCHANGED <<knownProviders, regexCache, arg, targetURL, endpoint, query,
                   mUrl, mScheme, mResult, mLen, Concurrent, client, extract>>

\* the page answers: fetch the advertised endpoint, or give up
DiscoveryResponse(resp) ==
    /\ pc = "discover"
    /\ \E d \in {discoverOEmbedEndpoint(targetURL, resp)} :
       \E reqs \in {Answered(requests, resp)} :
           /\ discovered' = [endpoint |-> d.endpoint, err |-> d.err, called |-> TRUE]
           /\ IF ~d.err /\ d.endpoint # "" /\ ~urlParseErr(d.endpoint)
              THEN /\ requests' = Append(reqs, OEmbedRequest(d.endpoint, targetURL))
                   /\ pc' = "fetchDiscovered"
                   /\ result' = NoResult
              ELSE /\ requests' = reqs
                   /\ ReturnNotFound(targetURL)
    /\ UNCHANGED <<knownProviders, regexCache, arg, targetURL, endpoint, query,
                   mUrl, mScheme, mResult, mLen, Concurrent, client, extract>>

\* the discovered endpoint answers: return its record, or give up
DiscoveredResponse(resp) ==
    /\ pc = "fetchDiscovered"
    /\ LET f == fetchOEmbed(resp) IN
       IF ~f.err THEN ReturnRecord(f.oembed) ELSE ReturnNotFound(targetURL)
    /\ requests' = Answered(requests, resp)
    /\ UNCHANGED <<knownProviders, regexCache, arg, targetURL, endpoint,
                   discovered, query, mUrl, mScheme, mResult, mLen, Concurrent, client, extract>>

\* the caller has the result; the client is ready for the next call
Return ==
    /\ pc = "done"
    /\ pc' = "idle"
    /\ arg' = ""
    /\ targetURL' = ""
    /\ endpoint' = ""
    /\ discovered' = NoDiscovery
    /\ requests' = <<>>
    /\ result' = NoResult
    /\ UNCHANGED <<knownProviders, regexCache, query, mUrl, mScheme, mResult, mLen, Concurrent, client, extract>>

-----------------------------------------------------------------------------
(* registry and matcher calls between extractions *)

CallFrame == <<pc, arg, targetURL, endpoint, discovered, requests, result>>

AddCustomProvider_prepend(provider) ==
    /\ pc = "idle"
    /\ Len(knownProviders) < Len(BuiltinProviders) + MaxCustom
    /\ knownProviders' = <<provider>> \o knownProviders
    /\ query' = NoCall
    /\ UNCHANGED <<regexCache, mUrl, mScheme, mResult, mLen, Concurrent, client, extract>>
    /\ UNCHANGED CallFrame

\* AddCustomProvider(provider)
AddCustomProvider(provider) ==
    /\ pc = "idle"
    /\ Len(knownProviders) < Len(BuiltinProviders) + MaxCustom
    /\ knownProviders' = Append(knownProviders, provider)
    /\ query' = NoCall
    /\ UNCHANGED <<regexCache, mUrl, mScheme, mResult, mLen, Concurrent, client, extract>>
    /\ UNCHANGED CallFrame

\* IsOEmbedSupported(targetURL)
IsOEmbedSupported(u) ==
    /\ pc = "idle"
    /\ \E f \in {findOEmbedEndpoint(knownProviders, regexCache, u)} :
       /\ query' = [op |-> "IsOEmbedSupported", url |-> u, ret |-> (f.endpoint # "")]
       /\ regexCache' = f.cache
    /\ UNCHANGED <<knownProviders, mUrl, mScheme, mResult, mLen, Concurrent, client, extract>>
    /\ UNCHANGED CallFrame

\* clearRegexCache()
clearRegexCache ==
    /\ pc = "idle"
    /\ regexCache # EmptyCache
    /\ regexCache' = EmptyCache
    /\ query' = NoCall
    /\ UNCHANGED <<knownProviders, mUrl, mScheme, mResult, mLen, Concurrent, client, extract>>
    /\ UNCHANGED CallFrame

Next ==
    \/ \E u \in TargetURLs : ExtractOEmbed(u)
    \/ \E r \in OEmbedResponses : KnownResponse(r)
    \/ \E r \in PageResponses : DiscoveryResponse(r)
    \/ \E r \in OEmbedResponses : DiscoveredResponse(r)
    \/ Return
    \/ \E p \in CustomProviders : AddCustomProvider(p)
    \/ \E u \in TargetURLs : IsOEmbedSupported(u)
    \/ clearRegexCache

Spec == Init /\ [][Next]_vars

-----------------------------------------------------------------------------
(* properties of Client.ExtractOEmbed *)

\* url matches the scheme, per matchScheme on a cold cache
SchemeMatch(url, scheme) == matchScheme(EmptyCache, url, scheme).match

\* the positions of the registered schemes that url matches
MatchingPositions(url) ==
    {q \in SchemePositions(knownProviders) :
        SchemeMatch(url, SchemeAt(knownProviders, q))}

\* a response that carries an oEmbed record: status 200 and a JSON body
Succeeded(resp) ==
    /\ resp # Pending
    /\ ~resp.err
    /\ resp.StatusCode = StatusOK
    /\ resp.Body \in Records

\* a response that is in, and carries no record
Failed(resp) == resp # Pending /\ ~Succeeded(resp)

\* all nodes of a document tree
RECURSIVE NodesOf(_)
NodesOf(n) ==
    {n} \cup UNION {NodesOf(n.Children[i]) : i \in DOMAIN n.Children}

\* the oEmbed discovery link elements of a document
OEmbedLinks(doc) ==
    {n \in NodesOf(doc) :
        /\ n.Type = "ElementNode" /\ n.Data = "link"
        /\ \E i \in DOMAIN n.Attr :
              n.Attr[i] = Attribute("rel", "alternate")
        /\ \E i \in DOMAIN n.Attr :
              /\ n.Attr[i].Key = "type"
              /\ n.Attr[i].Val \in {"application/json+oembed", "text/json+oembed"}}

\* the page request was answered with status 200 and an HTML document
PageFetched(req) ==
    /\ req.kind = "page"
    /\ req.resp # Pending
    /\ ~req.resp.err
    /\ req.resp.StatusCode = StatusOK

\* the call started with a fetch of the known endpoint (a discovered
\* endpoint is only ever fetched after a page request)
KnownFetched == Len(requests) >= 1 /\ requests[1].kind = "oembed"

\* C1: when the target URL matches a registered scheme and the fetch of the
\* known endpoint succeeds, the call is over after that one request: the
\* request log holds exactly the oEmbed request to the known endpoint for
\* the normalized target, no page request, and the call returns the record
\* of that response with a nil error.
C1_ShortCircuit ==
    (KnownFetched /\ Succeeded(requests[1].resp)) =>
        /\ MatchingPositions(targetURL) # {}
        /\ pc = "done"
        /\ Len(requests) = 1
        /\ requests[1].url = endpoint
        /\ requests[1].target = targetURL
        /\ \A i \in DOMAIN requests : requests[i].kind # "page"
        /\ result = [oembed |-> requests[1].resp.Body, err |-> Nil]

C1_Witness ==
    /\ pc = "done"
    /\ arg = "https://www.youtube.com/watch?v=123"
    /\ KnownFetched /\ Succeeded(requests[1].resp)
    /\ result.err = Nil

\* the scenario of C2: no registered scheme matches the target URL, and the
\* page came back with status 200 and advertises an oEmbed discovery link
C2_Scenario ==
    /\ pc = "done"
    /\ MatchingPositions(targetURL) = {}
    /\ Len(requests) >= 1
    /\ PageFetched(requests[1])
    /\ OEmbedLinks(requests[1].resp.Body) # {}

\* C2 as stated: in that scenario the call makes exactly two requests, the
\* page fetch and then one oEmbed fetch, and returns the record decoded
\* from the second response.
C2_Original ==
    C2_Scenario =>
        /\ Len(requests) = 2
        /\ requests[1].kind = "page"
        /\ requests[2].kind = "oembed"
        /\ result = [oembed |-> requests[2].resp.Body, err |-> Nil]

\* C2 amended: in that scenario the first request is the one page fetch;
\* when the advertised href is non-empty and parses as a URL it is followed
\* by exactly one oEmbed fetch of the advertised endpoint, and the call
\* returns the record of that second response if it is a 200 with JSON and
\* the not-found error otherwise; when the href is empty or does not parse
\* there is no second request and the call returns the not-found error.
C2_Fallback ==
    C2_Scenario =>
        /\ requests[1].url = targetURL
        /\ \A i \in DOMAIN requests : (requests[i].kind = "page") => i = 1
        /\ IF discovered.endpoint # "" /\ ~urlParseErr(discovered.endpoint)
           THEN /\ Len(requests) = 2
                /\ requests[2].kind = "oembed"
                /\ requests[2].url = discovered.endpoint
                /\ requests[2].target = targetURL
                /\ Succeeded(requests[2].resp) =>
                      result = [oembed |-> requests[2].resp.Body, err |-> Nil]
                /\ Failed(requests[2].resp) =>
                      result = [oembed |-> Nil, err |-> NotFoundError(targetURL)]
           ELSE /\ Len(requests) = 1
                /\ result = [oembed |-> Nil, err |-> NotFoundError(targetURL)]

C2_Witness ==
    /\ C2_Scenario
    /\ Len(requests) = 2
    /\ Succeeded(requests[2].resp)
    /\ result.oembed = requests[2].resp.Body

\* C3: a stage failure never reaches the caller.  The only error the call
\* returns is the not-found error; a failed fetch of the known endpoint is
\* followed by discovery, never by a return; a call whose last fetch
\* carried a record returns that record with a nil error; and when the
\* not-found error is returned, no response in the log carried a record.
C3_FailuresSwallowed ==
    /\ result.err \in {Nil, NotFoundError(targetURL)}
    /\ (KnownFetched /\ Failed(requests[1].resp)) =>
          \/ pc = "discover"
          \/ Len(requests) >= 2 /\ requests[2].kind = "page"
          \/ discovered.called
    /\ (pc = "done" /\ requests # <<>> /\ requests[Len(requests)].kind = "oembed"
          /\ Succeeded(requests[Len(requests)].resp)) =>
          result = [oembed |-> requests[Len(requests)].resp.Body, err |-> Nil]
    /\ (pc = "done" /\ result.err # Nil) =>
          /\ result.oembed = Nil
          /\ \A i \in DOMAIN requests :
                requests[i].kind = "oembed" => Failed(requests[i].resp)

C3_Witness ==
    /\ pc = "done"
    /\ Len(requests) = 3
    /\ Failed(requests[1].resp)
    /\ Succeeded(requests[3].resp)
    /\ result = [oembed |-> requests[3].resp.Body, err |-> Nil]

C5_Original ==
    (pc = "done" /\ result.err # Nil) => result.err = NotFoundError(arg)

\* C5 amended: an error returned by the call is the not-found error naming
\* the normalized target URL: the argument itself when it contains "://",
\* and the argument prefixed with "https://" when it does not.
C5_NamesNormalizedURL ==
    (pc = "done" /\ result.err # Nil) =>
        result.err = NotFoundError(IF Contains(arg, "://") THEN arg
                                   ELSE "https://" \o arg)

C5_Witness ==
    /\ pc = "done"
    /\ arg = "example.com/x"
    /\ result.err = NotFoundError("https://example.com/x")

-----------------------------------------------------------------------------
(* properties of the registry lookups *)

\* C6 as stated: IsOEmbedSupported(url) is true exactly when url matches a
\* scheme of some endpoint of some provider of the registry.
C6_Original ==
    (query.op = "IsOEmbedSupported") =>
        (query.ret <=> MatchingPositions(query.url) # {})

\* C6 amended: IsOEmbedSupported(url) is true exactly when url matches a
\* registered scheme and the endpoint of the first matching scheme, in
\* scan order, has a non-empty URL; so it is false for a URL that matches
\* no scheme, and in a registry whose endpoints all have a URL it is true
\* exactly when some scheme matches.
C6_SupportedIffEndpoint ==
    (query.op = "IsOEmbedSupported") =>
        LET M == MatchingPositions(query.url) IN
        /\ query.ret <=>
              \E q \in M : /\ \A r \in M : Before(q, r)
                           /\ EndpointAt(knownProviders, q).URL # ""
        /\ (M = {}) => ~query.ret
        /\ (\A q \in SchemePositions(knownProviders) :
                EndpointAt(knownProviders, q).URL # "") =>
              (query.ret <=> M # {})

C6_Witness ==
    /\ query.op = "IsOEmbedSupported"
    /\ query.url = "https://myservice.com/videos/1"
    /\ query.ret
    /\ Len(knownProviders) > Len(BuiltinProviders)

\* C7: the endpoint findOEmbedEndpoint returns for the target of a call is
\* the URL of the endpoint of the first matching scheme in (provider,
\* endpoint, scheme) order, and "" when no scheme matches; so when a
\* built-in provider and a provider added later both match, the built-in
\* provider's endpoint is returned.
C7_FirstMatchWins ==
    (pc # "idle") =>
        LET M == MatchingPositions(targetURL) IN
        /\ (M = {}) => endpoint = ""
        /\ \A q \in M :
              (\A r \in M : Before(q, r)) =>
                  endpoint = EndpointAt(knownProviders, q).URL
        /\ (\E q \in M : q[1] <= Len(BuiltinProviders)) =>
              \E q \in M : /\ q[1] <= Len(BuiltinProviders)
                           /\ endpoint = BuiltinProviders[q[1]].Endpoints[q[2]].URL

C7_Witness ==
    /\ pc # "idle"
    /\ targetURL = "https://www.youtube.com/watch?v=123"
    /\ \E q \in MatchingPositions(targetURL) : q[1] > Len(BuiltinProviders)
    /\ endpoint = "https://www.youtube.com/oembed"

-----------------------------------------------------------------------------
(* matchScheme on candidate URLs *)

\* pieces a candidate URL is built from after its protocol prefix
MaxPieces == 4

Pieces == {"www", "evil.com", ".youtube.com", "/youtube.com",
           "?", "/watch", "/x"}

MatchInit ==
    /\ knownProviders = BuiltinProviders
    /\ regexCache = EmptyCache
    /\ pc = "idle"
    /\ arg = ""
    /\ targetURL = ""
    /\ endpoint = ""
    /\ discovered = NoDiscovery
    /\ requests = <<>>
    /\ result = NoResult
    /\ query = NoCall
    /\ mUrl = "https://"
    /\ mScheme \in MatchSchemes
    /\ mResult = NotCalled
    /\ mLen = 0
    /\ NoGoroutine
    /\ DefaultClient

\* a call matchScheme(url, mScheme) on the last candidate extended by a piece
MatchScheme(piece) ==
    /\ mLen < MaxPieces
    /\ LET url == mUrl \o piece
           m   == matchScheme(regexCache, url, mScheme)
       IN  /\ mUrl' = url
           /\ mResult' = [called |-> TRUE, match |-> m.match]
           /\ regexCache' = m.cache
    /\ mLen' = mLen + 1
    /\ UNCHANGED <<knownProviders, query, mScheme, Concurrent, client, extract>>
    /\ UNCHANGED CallFrame

MatchNext == \E piece \in Pieces : MatchScheme(piece)

SpecMatch == MatchInit /\ [][MatchNext]_vars

\* wildcard match of a whole text: each "*" of the pattern stands for a run
\* of at least min characters none of which is in the set excluded
RECURSIVE Glob(_, _, _, _)
Glob(pat, txt, min, excluded) ==
    IF pat = "" THEN txt = ""
    ELSE IF Char(pat, 1) = "*"
         THEN \E k \in min..Len(txt) :
                 /\ \A x \in 1..k : Char(txt, x) \notin excluded
                 /\ Glob(SubSeq(pat, 2, Len(pat)), SubSeq(txt, k + 1, Len(txt)),
                         min, excluded)
         ELSE /\ txt # ""
              /\ Char(txt, 1) = Char(pat, 1)
              /\ Glob(SubSeq(pat, 2, Len(pat)), SubSeq(txt, 2, Len(txt)),
                      min, excluded)

\* protocol, "", host and path of a URL or scheme: the text cut at its
\* first three "/"
Segments(s) == SplitN(s, "/", 4)

\* C8: a "*" in the host segment of a scheme never matches text with a "/"
\* in it: whenever matchScheme accepts a candidate, the candidate's own
\* host segment (the text between "//" and the next "/") is matched by the
\* scheme's host segment with every "*" standing for slash-free text.  In
\* particular https://*.youtube.com/x rejects https://evil.com/youtube.com/x.
C8_WildcardContainment ==
    /\ (mResult.called /\ mResult.match) =>
          LET S == Segments(mScheme)
              U == Segments(mUrl)
          IN  /\ Len(U) >= 3
              /\ U[1] = S[1]
              /\ U[2] = ""
              /\ Glob(S[3], U[3], 0, {"/"})
    /\ ~SchemeMatch("https://evil.com/youtube.com/x", "https://*.youtube.com/x")

C8_Witness ==
    /\ mScheme = "https://*.youtube.com/x"
    /\ mUrl = "https://evil.com/youtube.com/x"
    /\ mResult = [called |-> TRUE, match |-> FALSE]

\* the authority of a URL: the text between "://" and the first "/", "?"
\* or "#" after it
Authority(url) ==
    LET a    == IndexFrom(url, "://", 1) + 3
        Ends == {i \in a..Len(url) : Char(url, i) \in {"/", "?", "#"}}
        e    == IF Ends = {} THEN Len(url) + 1
                ELSE CHOOSE i \in Ends : \A j \in Ends : i <= j
    IN  SubSeq(url, a, e - 1)

\* text ends with suffix
HasSuffix(text, suffix) ==
    /\ Len(text) >= Len(suffix)
    /\ SubSeq(text, Len(text) - Len(suffix) + 1, Len(text)) = suffix

\* C9 as stated, for the registered scheme https://*.youtube.com/watch*: a
\* candidate https://<label>.youtube.com/watch<anything> with a single
\* label for the "*" matches, and a candidate whose authority is not under
\* youtube.com does not match.
C9_DomainBoundary ==
    (mResult.called /\ mScheme = "https://*.youtube.com/watch*") =>
        /\ (\E label \in {"www", "youtube"} :
               HasPrefix(mUrl, "https://" \o label \o ".youtube.com/watch"))
              => mResult.match
        /\ ~HasSuffix(Authority(mUrl), ".youtube.com")
              => ~mResult.match

\* the call on which the code and C9 part: the authority is evil.com
C9_Witness ==
    /\ mScheme = "https://*.youtube.com/watch*"
    /\ mUrl = "https://evil.com?.youtube.com/watch"
    /\ Authority(mUrl) = "evil.com"
    /\ mResult = [called |-> TRUE, match |-> TRUE]

\* C10 as stated: a "*" in the host segment stands for one or more
\* slash-free characters, so a candidate is accepted only if its host
\* segment is the scheme's with every "*" replaced by non-empty text.
C10_Original ==
    (mResult.called /\ mResult.match) =>
        Glob(Segments(mScheme)[3], Segments(mUrl)[3], 1, {"/"})

\* C10 amended: a "*" in the host segment stands for zero or more
\* slash-free characters.  matchScheme accepts a candidate exactly when the
\* candidate has the scheme's protocol, its host segment is the scheme's
\* with every "*" replaced by possibly empty slash-free text, and its path
\* is the scheme's with every "*" replaced by any text; so
\* https://*.youtube.com/watch accepts https://.youtube.com/watch.
C10_ZeroOrMore ==
    mResult.called =>
        LET S == Segments(mScheme)
            U == Segments(mUrl)
        IN  mResult.match <=>
               /\ Len(U) = Len(S)
               /\ U[1] = S[1]
               /\ U[2] = ""
               /\ Glob(S[3], U[3], 0, {"/"})
               /\ Glob(S[4], U[4], 0, {"\n"})

C10_Witness ==
    /\ mScheme = "https://*.youtube.com/watch"
    /\ mUrl = "https://.youtube.com/watch"
    /\ mResult = [called |-> TRUE, match |-> TRUE]

-----------------------------------------------------------------------------
(* matchScheme on the edge cases *)

\* pieces a candidate is built from, starting from the empty text
EdgePieces == {"", "x", "https://", "youtu.be", "/abc", "/ABC"}

EdgeInit ==
    /\ knownProviders = BuiltinProviders
    /\ regexCache = EmptyCache
    /\ pc = "idle"
    /\ arg = ""
    /\ targetURL = ""
    /\ endpoint = ""
    /\ discovered = NoDiscovery
    /\ requests = <<>>
    /\ result = NoResult
    /\ query = NoCall
    /\ mUrl = ""
    /\ mScheme \in EdgeSchemes
    /\ mResult = NotCalled
    /\ mLen = 0
    /\ NoGoroutine
    /\ DefaultClient

EdgeNext == \E piece \in EdgePieces : MatchScheme(piece)

SpecEdge == EdgeInit /\ [][EdgeNext]_vars

\* what a scheme pattern stands for: with three or more segments the
\* protocol segments are literal, a "*" of the host segment is slash-free
\* text and a "*" of the path is any text on one line; with fewer segments
\* every "*" is any text on one line
PatternAccepts(scheme, url) ==
    LET S == Segments(scheme)
        U == Segments(url)
    IN  IF Len(S) >= 3
        THEN /\ Len(U) = Len(S)
             /\ U[1] = S[1]
             /\ U[2] = S[2]
             /\ Glob(S[3], U[3], 0, {"/"})
             /\ Len(S) = 4 => Glob(S[4], U[4], 0, {"\n"})
        ELSE Glob(scheme, url, 0, {"\n"})

\* C11: matchScheme is anchored.  It accepts a candidate only when the
\* whole candidate text is what the pattern stands for, so never a
\* candidate with text before the protocol or after the end of a pattern
\* without a path wildcard; and a pattern without "*" accepts exactly the
\* candidate equal to it, character for character.
C11_Anchored ==
    mResult.called =>
        /\ mResult.match => PatternAccepts(mScheme, mUrl)
        /\ ~Contains(mScheme, "*") => (mResult.match <=> mUrl = mScheme)
        /\ HasPrefix(mUrl, "x") /\ mScheme # "*" => ~mResult.match

C11_Witness ==
    /\ mScheme = "https://youtu.be/abc"
    /\ mUrl = "https://youtu.be/abc"
    /\ mResult = [called |-> TRUE, match |-> TRUE]
    /\ ~SchemeMatch("xhttps://youtu.be/abc", mScheme)
    /\ ~SchemeMatch("https://youtu.be/ABC", mScheme)

\* C12 as stated: matchScheme returns false whenever the candidate or the
\* pattern is empty.
C12_Original ==
    (mResult.called /\ (mUrl = "" \/ mScheme = "")) => ~mResult.match

\* C12 amended: with an empty candidate or an empty pattern, matchScheme
\* returns true exactly when the candidate is empty and the pattern holds
\* nothing but "*" characters (the empty pattern included); so it returns
\* false for an empty candidate and a pattern with any other character, and
\* for an empty pattern and a non-empty candidate.
C12_EmptyArguments ==
    (mResult.called /\ (mUrl = "" \/ mScheme = "")) =>
        (mResult.match <=>
            /\ mUrl = ""
            /\ \A i \in 1..Len(mScheme) : Char(mScheme, i) = "*")

C12_Witness ==
    /\ mScheme = "*"
    /\ mUrl = ""
    /\ mResult = [called |-> TRUE, match |-> TRUE]


-----------------------------------------------------------------------------
(* concurrent callers of matchScheme and clearRegexCache *)

\* the schemes the concurrent callers pass, and their candidate URL
CacheSchemes == {"https://youtu.be/*", "https://vimeo.com/*"}

CacheURL == "https://youtu.be/abc"

\* the state the concurrent callers leave alone
Sequential ==
    <<knownProviders, pc, arg, targetURL, endpoint, discovered, requests,
      result, query, mUrl, mScheme, mResult, mLen, client, extract>>

\* the entry regexCache[scheme] as the pointer a goroutine reads
Cached(scheme) ==
    [text |-> regexCache[scheme], by |-> cacheStores[scheme].by]

\* a goroutine calls matchScheme(url, scheme), which calls getCompiledRegex
CallMatchScheme(g, url, scheme) ==
    /\ goroutines[g].pc = "idle"
    /\ goroutines' = [goroutines EXCEPT ![g] =
           [NotStarted EXCEPT !.pc = "RLock", !.op = "matchScheme",
                              !.url = url, !.scheme = scheme]]
    /\ UNCHANGED <<regexCache, regexCacheMutex, cacheStores>>
    /\ UNCHANGED Sequential

RLock_unguarded(g) ==
    /\ goroutines[g].pc = "RLock"
    /\ regexCacheMutex' = [regexCacheMutex EXCEPT !.readers = @ \cup {g}]
    /\ goroutines' = [goroutines EXCEPT ![g].pc = "lookup"]
    /\ UNCHANGED <<regexCache, cacheStores>>
    /\ UNCHANGED Sequential

\* regexCacheMutex.RLock(): waits while a writer holds the mutex
RLock(g) ==
    /\ goroutines[g].pc = "RLock"
    /\ regexCacheMutex.writer = 0
    /\ regexCacheMutex' = [regexCacheMutex EXCEPT !.readers = @ \cup {g}]
    /\ goroutines' = [goroutines EXCEPT ![g].pc = "lookup"]
    /\ UNCHANGED <<regexCache, cacheStores>>
    /\ UNCHANGED Sequential

Lookup_anyEntry(g) ==
    /\ goroutines[g].pc = "lookup"
    /\ goroutines' = [goroutines EXCEPT
           ![g].re = IF goroutines[g].scheme \in DOMAIN regexCache
                     THEN Cached(goroutines[g].scheme)
                     ELSE IF regexCache # EmptyCache
                     THEN Cached(CHOOSE k \in DOMAIN regexCache : TRUE)
                     ELSE NilRegexp,
           ![g].pc = "RUnlock"]
    /\ UNCHANGED <<regexCache, regexCacheMutex, cacheStores>>
    /\ UNCHANGED Sequential

\* re, exists := regexCache[scheme] under the read lock
Lookup(g) ==
    /\ goroutines[g].pc = "lookup"
    /\ goroutines' = [goroutines EXCEPT
           ![g].re = IF goroutines[g].scheme \in DOMAIN regexCache
                     THEN Cached(goroutines[g].scheme) ELSE NilRegexp,
           ![g].pc = "RUnlock"]
    /\ UNCHANGED <<regexCache, regexCacheMutex, cacheStores>>
    /\ UNCHANGED Sequential

RUnlock_keptOnMiss(g) ==
    /\ goroutines[g].pc = "RUnlock"
    /\ regexCacheMutex' =
           IF goroutines[g].re # NilRegexp
           THEN [regexCacheMutex EXCEPT !.readers = @ \ {g}]
           ELSE regexCacheMutex
    /\ goroutines' = [goroutines EXCEPT
           ![g].pc = IF goroutines[g].re # NilRegexp THEN "match" ELSE "Lock"]
    /\ UNCHANGED <<regexCache, cacheStores>>
    /\ UNCHANGED Sequential

\* regexCacheMutex.RUnlock(), then return re on a hit, go on to Lock() on
\* a miss
RUnlock(g) ==
    /\ goroutines[g].pc = "RUnlock"
    /\ regexCacheMutex' = [regexCacheMutex EXCEPT !.readers = @ \ {g}]
    /\ goroutines' = [goroutines EXCEPT
           ![g].pc = IF goroutines[g].re # NilRegexp THEN "match" ELSE "Lock"]
    /\ UNCHANGED <<regexCache, cacheStores>>
    /\ UNCHANGED Sequential

\* regexCacheMutex.Lock(): waits while any reader or a writer holds the
\* mutex (getCompiledRegex and clearRegexCache)
Lock(g) ==
    /\ goroutines[g].pc = "Lock"
    /\ regexCacheMutex = Unlocked
    /\ regexCacheMutex' = [regexCacheMutex EXCEPT !.writer = g]
    /\ goroutines' = [goroutines EXCEPT
           ![g].pc = IF goroutines[g].op = "matchScheme"
                     THEN "recheck" ELSE "replace"]
    /\ UNCHANGED <<regexCache, cacheStores>>
    /\ UNCHANGED Sequential

Recheck_skipped(g) ==
    /\ goroutines[g].pc = "recheck"
    /\ goroutines' = [goroutines EXCEPT ![g].pc = "compile"]
    /\ UNCHANGED <<regexCache, regexCacheMutex, cacheStores>>
    /\ UNCHANGED Sequential

\* the second re, exists := regexCache[scheme], under the write lock
Recheck(g) ==
    /\ goroutines[g].pc = "recheck"
    /\ goroutines' = [goroutines EXCEPT
           ![g].re = IF goroutines[g].scheme \in DOMAIN regexCache
                     THEN Cached(goroutines[g].scheme) ELSE NilRegexp,
           ![g].pc = IF goroutines[g].scheme \in DOMAIN regexCache
                     THEN "Unlock" ELSE "compile"]
    /\ UNCHANGED <<regexCache, regexCacheMutex, cacheStores>>
    /\ UNCHANGED Sequential

\* schemeToRegex, regexp.Compile and, when the pattern compiles, the store
\* regexCache[scheme] = re
Compile(g) ==
    /\ goroutines[g].pc = "compile"
    /\ \E scheme \in {goroutines[g].scheme} :
       \E c \in {CompileScheme(scheme)} :
           IF c.err
           THEN /\ goroutines' = [goroutines EXCEPT ![g].re = NilRegexp,
                                                    ![g].pc = "Unlock"]
                /\ UNCHANGED <<regexCache, cacheStores>>
           ELSE /\ regexCache' = (scheme :> c.re) @@ regexCache
                /\ cacheStores' =
                       (scheme :> [n  |-> IF scheme \in DOMAIN cacheStores
                                          THEN cacheStores[scheme].n + 1 ELSE 1,
                                   by |-> g]) @@ cacheStores
                /\ goroutines' = [goroutines EXCEPT
                       ![g].re = [text |-> c.re, by |-> g],
                       ![g].pc = "Unlock"]
    /\ UNCHANGED regexCacheMutex
    /\ UNCHANGED Sequential

\* the deferred regexCacheMutex.Unlock() on the way out of getCompiledRegex
\* and of clearRegexCache
Unlock(g) ==
    /\ goroutines[g].pc = "Unlock"
    /\ regexCacheMutex' = [regexCacheMutex EXCEPT !.writer = 0]
    /\ goroutines' = [goroutines EXCEPT
           ![g].pc = IF goroutines[g].op = "matchScheme" THEN "match" ELSE "idle"]
    /\ UNCHANGED <<regexCache, cacheStores>>
    /\ UNCHANGED Sequential

\* matchScheme goes on with the re it was handed and returns
Match(g) ==
    /\ goroutines[g].pc = "match"
    /\ goroutines' = [goroutines EXCEPT
           ![g].ret = IF goroutines[g].re = NilRegexp THEN FALSE
                      ELSE Matches(goroutines[g].re.text, goroutines[g].url),
           ![g].pc = "idle"]
    /\ UNCHANGED <<regexCache, regexCacheMutex, cacheStores>>
    /\ UNCHANGED Sequential

\* a goroutine calls clearRegexCache()
CallClearRegexCache(g) ==
    /\ goroutines[g].pc = "idle"
    /\ goroutines' = [goroutines EXCEPT ![g] =
           [NotStarted EXCEPT !.pc = "Lock", !.op = "clearRegexCache"]]
    /\ UNCHANGED <<regexCache, regexCacheMutex, cacheStores>>
    /\ UNCHANGED Sequential

\* regexCache = make(map[string]*regexp.Regexp); every other goroutine's
\* call has from now on run beside a clearRegexCache
Replace(g) ==
    /\ goroutines[g].pc = "replace"
    /\ regexCache' = EmptyCache
    /\ cacheStores' = << >>
    /\ goroutines' = [h \in Goroutine |->
           IF h = g THEN [goroutines[h] EXCEPT !.pc = "Unlock"]
           ELSE [goroutines[h] EXCEPT !.cleared = TRUE]]
    /\ UNCHANGED regexCacheMutex
    /\ UNCHANGED Sequential

CacheNext ==
    \E g \in Goroutine :
        \/ \E scheme \in CacheSchemes : CallMatchScheme(g, CacheURL, scheme)
        \/ RLock(g)
        \/ Lookup(g)
        \/ RUnlock(g)
        \/ Lock(g)
        \/ Recheck(g)
        \/ Compile(g)
        \/ Unlock(g)
        \/ Match(g)
        \/ CallClearRegexCache(g)
        \/ Replace(g)

SpecCache == Init /\ [][CacheNext]_vars

\* the goroutine is inside a matchScheme call, or back from one, that no
\* clearRegexCache ran beside, and getCompiledRegex has handed it its re
Holds(g, scheme) ==
    /\ goroutines[g].op = "matchScheme"
    /\ goroutines[g].scheme = scheme
    /\ ~goroutines[g].cleared
    /\ goroutines[g].re # NilRegexp

\* C13: concurrent matchScheme calls with one scheme compile and store it
\* once.  Since the map was last replaced every cached scheme was stored
\* exactly once; all callers that no clearRegexCache ran beside hold the
\* same matcher, which is the cached one; and the cache has the entry for
\* the scheme of every such caller.
C13_CompiledOnce ==
    /\ DOMAIN cacheStores = DOMAIN regexCache
    /\ \A scheme \in DOMAIN cacheStores : cacheStores[scheme].n = 1
    /\ \A g \in Goroutine : \A scheme \in CacheSchemes :
          Holds(g, scheme) =>
              /\ scheme \in DOMAIN regexCache
              /\ goroutines[g].re = Cached(scheme)
              /\ \A h \in Goroutine :
                    Holds(h, scheme) => goroutines[h].re = goroutines[g].re

\* two goroutines raced on one uncached scheme: both missed under the read
\* lock, one compiled and stored, the other found the entry on its re-check
C13_Witness ==
    \E g, h \in Goroutine :
        /\ g # h
        /\ Holds(g, goroutines[h].scheme)
        /\ Holds(h, goroutines[h].scheme)
        /\ goroutines[g].pc = "Unlock"
        /\ goroutines[g].re.by = h
        /\ goroutines[h].pc = "idle"

\* the goroutine's next step reads regexCache
Reading(g) == goroutines[g].pc \in {"lookup", "recheck"}

\* the goroutine's next step writes regexCache
Writing(g) == goroutines[g].pc \in {"compile", "replace"}

\* C14: every access to regexCache is made under regexCacheMutex.  A
\* reader holds the read or the write lock, a writer holds the write lock,
\* the write lock is never held together with a read lock, and while one
\* goroutine writes no other goroutine reads or writes.
C14_LockProtected ==
    /\ regexCacheMutex.writer # 0 => regexCacheMutex.readers = {}
    /\ \A g \in Goroutine :
          /\ Reading(g) => (g \in regexCacheMutex.readers \/ regexCacheMutex.writer = g)
          /\ Writing(g) => regexCacheMutex.writer = g
          /\ Writing(g) => \A h \in Goroutine \ {g} : ~Reading(h) /\ ~Writing(h)

\* a goroutine is about to store into a cache that already has an entry
\* while another goroutine waits in RLock() for its lookup
C14_Witness ==
    \E g, h \in Goroutine :
        /\ goroutines[g].pc = "compile"
        /\ goroutines[h].pc = "RLock"
        /\ regexCacheMutex.writer = g
        /\ regexCache # EmptyCache

\* two goroutines read regexCache together, each holding the read lock
C14_ReadersShare ==
    \E g, h \in Goroutine :
        /\ g # h
        /\ goroutines[g].pc = "lookup"
        /\ goroutines[h].pc = "lookup"
        /\ regexCacheMutex.readers = {g, h}

-----------------------------------------------------------------------------
(* properties of the registry under sequential calls *)

\* the elements of a provider list
Elements(providers) == {providers[i] : i \in DOMAIN providers}

\* the registry after the step is the registry before it with zero or more
\* providers appended
Extended ==
    /\ Len(knownProviders') >= Len(knownProviders)
    /\ SubSeq(knownProviders', 1, Len(knownProviders)) = knownProviders

\* what AddCustomProvider(p) leaves behind, but for what GetProviderByName
\* returns
Added(p) ==
    /\ ProviderCount(knownProviders') = ProviderCount(knownProviders) + 1
    /\ knownProviders'[Len(knownProviders')] = p
    /\ p \in Elements(GetKnownProviders(knownProviders'))
    /\ IsProviderSupported(knownProviders', p.Name)
    /\ ~GetProviderByName(knownProviders', p.Name).nil

\* C15 as stated: every AddCustomProvider(p) adds one to ProviderCount and
\* makes p what GetKnownProviders lists, IsProviderSupported(p.Name) finds
\* and GetProviderByName(p.Name) returns; no step removes or reorders a
\* provider, and the built-in providers stay first.
C15_Original ==
    [][/\ Extended
       /\ \A p \in CustomProviders :
             AddCustomProvider(p) =>
                 /\ Added(p)
                 /\ GetProviderByName(knownProviders', p.Name).val = p]_vars

\* C15 amended: as above, but GetProviderByName(p.Name) returns the first
\* provider of that name, which is p only when no earlier provider has
\* p's name.
C15_AppendOnly ==
    [][/\ Extended
       /\ SubSeq(knownProviders', 1, Len(BuiltinProviders)) = BuiltinProviders
       /\ \A p \in CustomProviders :
             AddCustomProvider(p) =>
                 /\ Added(p)
                 /\ GetProviderByName(knownProviders', p.Name).val.Name = p.Name
                 /\ (GetProviderByName(knownProviders', p.Name).val = p) <=>
                        \A i \in DOMAIN knownProviders :
                            knownProviders[i].Name = p.Name => knownProviders[i] = p]_vars

\* a provider with the name of a built-in one was added after another
\* custom provider
C15_Witness ==
    /\ Len(knownProviders) = Len(BuiltinProviders) + 2
    /\ knownProviders[Len(knownProviders)].Name = BuiltinProviders[1].Name
    /\ knownProviders[Len(knownProviders)] # BuiltinProviders[1]
    /\ GetProviderByName(knownProviders, "YouTube").val = BuiltinProviders[1]

-----------------------------------------------------------------------------
(* concurrent callers of the provider registry, and what the callers do
   with the lists they are handed *)

\* the providers the concurrent callers register
RegistryProviders ==
    {p \in CustomProviders : p.Name \in {"MyService", "YouTube"}}

\* the name a caller writes into a list it was handed
Modified == "Modified"

\* the state the registry's callers leave alone
CacheState ==
    <<regexCache, regexCacheMutex, cacheStores, pc, arg, targetURL, endpoint,
      discovered, requests, result, query, mUrl, mScheme, mResult, mLen,
      client, extract>>

\* the goroutine has not yet made its call
Free(g) == goroutines[g].pc = "idle"

\* a goroutine calls GetKnownProviders(), directly or through
\* GetSupportedProviders()
CallGetKnownProviders(g, op) ==
    /\ Free(g)
    /\ goroutines' = [goroutines EXCEPT ![g] =
           [NotStarted EXCEPT !.pc = "make", !.op = op]]
    /\ UNCHANGED knownProviders
    /\ UNCHANGED CacheState

\* providers := make([]OEmbedProvider, len(knownProviders))
Make(g) ==
    /\ goroutines[g].pc = "make"
    /\ goroutines' = [goroutines EXCEPT
           ![g].n = Len(knownProviders),
           ![g].list = [i \in 1..Len(knownProviders) |-> ZeroProvider],
           ![g].ref = "own",
           ![g].pc = "copy"]
    /\ UNCHANGED knownProviders
    /\ UNCHANGED CacheState

\* another goroutine is inside AddCustomProvider: its append has moved the
\* providers to a new backing array (the slice of the composite literal has
\* no spare capacity) and the new slice header is still to be stored
Reallocating(g) ==
    \E h \in Goroutine \ {g} :
        /\ goroutines[h].pc = "assign"
        /\ Len(goroutines[h].list) = Len(BuiltinProviders) + 1

\* what copy(providers, knownProviders) can leave in the n elements of
\* providers: the elements of the slice it reads, as many as that slice has
\* (it is shorter than n after a concurrent AddCustomProvider stored a
\* header it had computed earlier); beside an unsynchronised append that
\* reallocates, a read of the new array before its elements are visible
CopyOutcomes(g) ==
    {[i \in 1..goroutines[g].n |->
         IF i <= Len(knownProviders) THEN knownProviders[i] ELSE ZeroProvider]}
        \cup (IF Reallocating(g)
              THEN {[i \in 1..goroutines[g].n |-> ZeroProvider]} ELSE {})

Copy_alias(g) ==
    /\ goroutines[g].pc = "copy"
    /\ goroutines' = [goroutines EXCEPT ![g].list = <<>>,
                                        ![g].ref = "registry",
                                        ![g].pc = "returned"]
    /\ UNCHANGED knownProviders
    /\ UNCHANGED CacheState

\* copy(providers, knownProviders); return providers
Copy(g) ==
    /\ goroutines[g].pc = "copy"
    /\ \E out \in CopyOutcomes(g) :
           goroutines' = [goroutines EXCEPT ![g].list = out,
                                            ![g].pc = "returned"]
    /\ UNCHANGED knownProviders
    /\ UNCHANGED CacheState

\* a goroutine calls AddCustomProvider(provider)
CallAddCustomProvider(g, provider) ==
    /\ Free(g)
    /\ Len(knownProviders) < Len(BuiltinProviders) + MaxCustom
    /\ goroutines' = [goroutines EXCEPT ![g] =
           [NotStarted EXCEPT !.pc = "append", !.op = "AddCustomProvider",
                              !.provider = provider]]
    /\ UNCHANGED knownProviders
    /\ UNCHANGED CacheState

\* append(knownProviders, provider): the right-hand side of the assignment
AppendProvider(g) ==
    /\ goroutines[g].pc = "append"
    /\ goroutines' = [goroutines EXCEPT
           ![g].list = Append(knownProviders, goroutines[g].provider),
           ![g].pc = "assign"]
    /\ UNCHANGED knownProviders
    /\ UNCHANGED CacheState

\* knownProviders = ...: the store of the new slice header
Assign(g) ==
    /\ goroutines[g].pc = "assign"
    /\ knownProviders' = goroutines[g].list
    /\ goroutines' = [goroutines EXCEPT ![g] = [NotStarted EXCEPT !.pc = "done"]]
    /\ UNCHANGED CacheState

\* the list a returned slice shows: its own backing array, or the
\* registry's
ViewOf(frame, providers) ==
    IF frame.ref = "registry" THEN providers ELSE frame.list

\* a write by the caller into the list it holds
WriteThrough(g, new) ==
    IF goroutines[g].ref = "registry"
    THEN /\ knownProviders' = new
         /\ goroutines' = [goroutines EXCEPT ![g].pc = "mutated"]
    ELSE /\ goroutines' = [goroutines EXCEPT ![g].list = new,
                                             ![g].pc = "mutated"]
         /\ UNCHANGED knownProviders

\* providers[i].Name = "Modified"
SetName(g, i) ==
    /\ goroutines[g].pc = "returned"
    /\ i \in DOMAIN ViewOf(goroutines[g], knownProviders)
    /\ WriteThrough(g, [ViewOf(goroutines[g], knownProviders)
                            EXCEPT ![i].Name = Modified])
    /\ UNCHANGED CacheState

\* providers[i] = OEmbedProvider{}
SetElement(g, i) ==
    /\ goroutines[g].pc = "returned"
    /\ i \in DOMAIN ViewOf(goroutines[g], knownProviders)
    /\ WriteThrough(g, [ViewOf(goroutines[g], knownProviders)
                            EXCEPT ![i] = ZeroProvider])
    /\ UNCHANGED CacheState

\* the lists that hold provider i share the backing array of its Endpoints:
\* copy and append move the slice header of Endpoints, never its elements
SetThroughEndpoints(providers, i) ==
    IF i \in DOMAIN providers /\ providers[i].Endpoints # <<>>
    THEN [providers EXCEPT ![i].Endpoints[1].URL = Modified]
    ELSE providers

\* providers[i].Endpoints[0].URL = "Modified", for a built-in provider i
SetEndpointURL(g, i) ==
    /\ goroutines[g].pc = "returned"
    /\ i \in DOMAIN ViewOf(goroutines[g], knownProviders)
    /\ ViewOf(goroutines[g], knownProviders)[i].Endpoints # <<>>
    /\ knownProviders' = SetThroughEndpoints(knownProviders, i)
    /\ goroutines' = [h \in Goroutine |->
           [goroutines[h] EXCEPT
               !.list = SetThroughEndpoints(@, i),
               !.pc = IF h = g THEN "mutated" ELSE @]]
    /\ UNCHANGED CacheState

RegistryNext ==
    \E g \in Goroutine :
        \/ \E op \in {"GetKnownProviders", "GetSupportedProviders"} :
              CallGetKnownProviders(g, op)
        \/ Make(g)
        \/ Copy(g)
        \/ \E p \in RegistryProviders : CallAddCustomProvider(g, p)
        \/ AppendProvider(g)
        \/ Assign(g)
        \/ SetName(g, 1)
        \/ SetElement(g, 1)
        \/ SetEndpointURL(g, 1)

SpecRegistry == Init /\ [][RegistryNext]_vars

\* C16: the lists GetKnownProviders and GetSupportedProviders return are
\* independent copies.  A caller that replaces an element of its list, or
\* changes the Name of one, changes neither the registry (ProviderCount,
\* GetProviderByName and findOEmbedEndpoint answer as before) nor the list
\* any other caller holds.
C16_IndependentCopies ==
    [][\A g \in Goroutine :
          (SetName(g, 1) \/ SetElement(g, 1)) =>
              /\ knownProviders' = knownProviders
              /\ ProviderCount(knownProviders') = ProviderCount(knownProviders)
              /\ GetProviderByName(knownProviders', Modified).nil
              /\ GetProviderByName(knownProviders', "YouTube")
                     = GetProviderByName(knownProviders, "YouTube")
              /\ findOEmbedEndpoint(knownProviders', regexCache, CacheURL).endpoint
                     = findOEmbedEndpoint(knownProviders, regexCache, CacheURL).endpoint
              /\ \A h \in Goroutine \ {g} :
                    ViewOf(goroutines'[h], knownProviders')
                        = ViewOf(goroutines[h], knownProviders)]_vars

\* two callers hold a list each, one has renamed its first element and the
\* other still reads the built-in name there, as the registry does
C16_Witness ==
    \E g, h \in Goroutine :
        /\ goroutines[g].pc = "mutated"
        /\ goroutines[g].op = "GetKnownProviders"
        /\ goroutines[g].list[1].Name = Modified
        /\ goroutines[h].pc = "returned"
        /\ goroutines[h].op = "GetSupportedProviders"
        /\ goroutines[h].list[1] = BuiltinProviders[1]
        /\ knownProviders[1] = BuiltinProviders[1]

\* list is the first elements of providers
IsPrefix(list, providers) ==
    /\ Len(list) <= Len(providers)
    /\ \A i \in DOMAIN list : list[i] = providers[i]

\* the goroutine's next step reads the slice knownProviders
ReadsProviders(g) == goroutines[g].pc \in {"make", "copy"}

\* the goroutine's next step writes the slice knownProviders or its array
WritesProviders(g) == goroutines[g].pc \in {"append", "assign"}

\* C17: GetKnownProviders beside AddCustomProvider returns a stable
\* snapshot.  The list copy leaves behind is the registry as it was when
\* the call began or as it is after the append, and no goroutine is about
\* to read knownProviders while another is about to write it.
C17_StableSnapshot ==
    [][/\ \A g \in Goroutine :
             Copy(g) =>
                 IsPrefix(goroutines'[g].list, knownProviders)
       /\ \A g, h \in Goroutine :
             g # h => ~(ReadsProviders(g)' /\ WritesProviders(h)')]_vars

\* GetKnownProviders has sized its slice and is about to copy while
\* AddCustomProvider has appended and is about to store the new header
C17_Witness ==
    \E g, h \in Goroutine :
        /\ goroutines[g].pc = "copy"
        /\ goroutines[g].op = "GetKnownProviders"
        /\ goroutines[h].pc = "assign"
        /\ regexCacheMutex = Unlocked

\* C28: AddCustomProvider calls that run concurrently lose no update.  The
\* store that ends a call leaves in the registry every provider that was
\* there and the provider of the call, and ProviderCount has grown by one,
\* so that two concurrent calls leave both providers and a count grown by
\* exactly two.
C28_NoLostUpdate ==
    [][\A g \in Goroutine :
          Assign(g) =>
              /\ ProviderCount(knownProviders')
                     = ProviderCount(knownProviders) + 1
              /\ IsPrefix(knownProviders, knownProviders')
              /\ knownProviders'[Len(knownProviders')]
                     = goroutines[g].provider]_vars

\* two AddCustomProvider calls have returned and the registry holds one
\* provider more than the built-in ones
C28_Witness ==
    \E g, h \in Goroutine :
        /\ g # h
        /\ goroutines[g].pc = "done"
        /\ goroutines[h].pc = "done"
        /\ ProviderCount(knownProviders) = Len(BuiltinProviders) + 1

\* C30: no write made through the list GetKnownProviders returned changes
\* the registry, neither a write to an element or its Name nor a write to
\* the URL of an endpoint of a returned provider: the registry is as before,
\* findOEmbedEndpoint and IsOEmbedSupported answer as before, and the lists
\* of the other callers are as before.
C30_CopyPreventsModification ==
    [][\A g \in Goroutine :
          (SetName(g, 1) \/ SetElement(g, 1) \/ SetEndpointURL(g, 1)) =>
              /\ GetKnownProviders(knownProviders')
                     = GetKnownProviders(knownProviders)
              /\ \E before \in {findOEmbedEndpoint(knownProviders, regexCache,
                                                     CacheURL).endpoint} :
                 \E after \in {findOEmbedEndpoint(knownProviders', regexCache,
                                                    CacheURL).endpoint} :
                     /\ after = before
                     /\ (after # "") = (before # "")
              /\ \A h \in Goroutine \ {g} :
                    ViewOf(goroutines'[h], knownProviders')
                        = ViewOf(goroutines[h], knownProviders)]_vars

\* a caller has written the URL of the first endpoint of the first provider
\* of its list, and the registry answers with that URL for a YouTube link
C30_Witness ==
    \E g \in Goroutine :
        /\ goroutines[g].pc = "mutated"
        /\ goroutines[g].op = "GetKnownProviders"
        /\ goroutines[g].list[1].Name = BuiltinProviders[1].Name
        /\ goroutines[g].list[1].Endpoints[1].URL = Modified
        /\ knownProviders[1].Endpoints[1].URL = Modified
        /\ findOEmbedEndpoint(knownProviders, regexCache, CacheURL).endpoint
               = Modified

-----------------------------------------------------------------------------
(* fetchOEmbed on endpoint URLs that have a query *)

\* settings appended to the query of the endpoint URL
MaxSettings == 3

\* the settings: plain ones, ones for the two keys fetchOEmbed sets, an
\* escaped one, and ones parseQuery rejects (a bad escape, a semicolon)
QuerySettings == {"a=1", "url=old", "format=xml", "b=x%20y", "a=%zz", "k=a;b"}

FetchEndpoint == "https://example.com/oembed"

FetchTargets == {"https://youtu.be/abc", "https://example.com/p?x=1&y=2 3"}

FetchInit ==
    /\ knownProviders = BuiltinProviders
    /\ regexCache = EmptyCache
    /\ pc = "idle"
    /\ arg = ""
    /\ targetURL \in FetchTargets
    /\ endpoint = FetchEndpoint
    /\ discovered = NoDiscovery
    /\ requests = <<>>
    /\ result = NoResult
    /\ query = NoCall
    /\ mUrl = ""
    /\ mScheme = ""
    /\ mResult = NotCalled
    /\ mLen = 0
    /\ NoGoroutine
    /\ DefaultClient

\* a call fetchOEmbed(endpoint, targetURL), up to its HTTP request, on the
\* last endpoint URL extended by a setting
FetchOEmbed(setting) ==
    /\ mLen < MaxSettings
    /\ \E ep \in {endpoint \o (IF mLen = 0 THEN "?" ELSE "&") \o setting} :
          /\ endpoint' = ep
          /\ requests' = <<OEmbedRequest(ep, targetURL)>>
    /\ mLen' = mLen + 1
    /\ UNCHANGED <<knownProviders, regexCache, pc, arg, targetURL, discovered,
                   result, query, mUrl, mScheme, mResult, Concurrent, client, extract>>

FetchNext == \E setting \in QuerySettings : FetchOEmbed(setting)

SpecFetch == FetchInit /\ [][FetchNext]_vars

\* the parameter a setting of a query stands for
Parameter(setting) ==
    [key |-> QueryUnescape(RawKey(setting)), value |-> QueryUnescape(RawValue(setting))]

\* the request URL has a setting for the same parameter: the same text, or
\* text that unescapes to the same key and value
Preserved(setting, get) ==
    \E sent \in {Settings(RawQuery(get))} :
    \E i \in DOMAIN sent :
        \/ sent[i] = setting
        \/ /\ WellFormed(setting)
           /\ WellFormed(sent[i])
           /\ Parameter(sent[i]) = Parameter(setting)

\* the settings of the endpoint URL for keys other than url and format
OtherSettings(ep) ==
    UNION {{given[i] : i \in DOMAIN given} : given \in {Settings(RawQuery(ep))}}
        \ {s \in QuerySettings : RawKey(s) \in {"url", "format"}}

\* the request has one url parameter, the target URL, and one format
\* parameter, json, on the endpoint's own address
SetsUrlAndFormat(req) ==
    /\ UrlBeforeQuery(req.GET) = UrlBeforeQuery(endpoint)
    /\ \E sent \in {Settings(RawQuery(req.GET))} :
          \A i \in DOMAIN sent : WellFormed(sent[i])
    /\ \E values \in {ParseQuery(RawQuery(req.GET))} :
          /\ WithKey(values, "url") = <<[key |-> "url", value |-> targetURL]>>
          /\ WithKey(values, "format") = <<[key |-> "format", value |-> "json"]>>

\* C18 as stated: the request fetchOEmbed makes has url set to the target
\* URL and format to json, each once, and every other setting of the
\* endpoint URL's query is in the request with its value.
C18_Original ==
    requests # <<>> =>
        /\ SetsUrlAndFormat(requests[1])
        /\ \A s \in OtherSettings(endpoint) : Preserved(s, requests[1].GET)

\* C18 amended: as above for the settings that parse; the values of every
\* other key are the endpoint's, in their order, and nothing else is added.
\* A setting that holds a semicolon or a bad percent-escape is dropped.
C18_QueryParameters ==
    requests # <<>> =>
        /\ SetsUrlAndFormat(requests[1])
        /\ \A s \in OtherSettings(endpoint) :
              WellFormed(s) <=> Preserved(s, requests[1].GET)
        /\ \E sent \in {ParseQuery(RawQuery(requests[1].GET))} :
           \E given \in {ParseQuery(RawQuery(endpoint))} :
              /\ \A s \in QuerySettings :
                    RawKey(s) \notin {"url", "format"} =>
                        WithKey(sent, RawKey(s)) = WithKey(given, RawKey(s))
              /\ Len(sent)
                     = Len(WithoutKey(WithoutKey(given, "url"), "format")) + 2

\* the endpoint URL came with a url, a format and an escaped setting; the
\* request has the new url and format and the other setting re-escaped
C18_Witness ==
    /\ endpoint = "https://example.com/oembed?url=old&b=x%20y&format=xml"
    /\ targetURL = "https://example.com/p?x=1&y=2 3"
    /\ requests = <<OEmbedRequest(endpoint, targetURL)>>
    /\ requests[1].GET = "https://example.com/oembed?b=x+y&format=json&url=https%3A%2F%2Fexample.com%2Fp%3Fx%3D1%26y%3D2+3"

-----------------------------------------------------------------------------
(* discovery on pages with several link elements *)

\* link elements appended to the head of the page
MaxLinks == 3

Link(rel, type, href) ==
    Element("link", <<Attribute("rel", rel), Attribute("type", type),
                      Attribute("href", href)>>, <<>>)

\* the elements: oEmbed links of both types, one with an empty href, one
\* inside another element, a feed link and a link whose rel has a second
\* token
HeadElements == {
    Link("alternate", "application/json+oembed", "https://a.example/oembed"),
    Link("alternate", "text/json+oembed", "/b"),
    Link("alternate", "application/json+oembed", ""),
    Element("noscript", <<>>, <<Link("alternate", "application/json+oembed", "/n")>>),
    Link("alternate", "application/rss+xml", "/feed"),
    Link("alternate nofollow", "application/json+oembed", "/r") }

PageURL == "https://example.com/page"

\* the page request answered with doc, and what discovery made of it
Discovered(doc) ==
    CHOOSE r \in
        {[requests   |-> <<[PageRequest(PageURL) EXCEPT !.resp = Response(StatusOK, doc)]>>,
          discovered |-> [endpoint |-> d.endpoint, err |-> d.err, called |-> TRUE]] :
           d \in {discoverOEmbedEndpoint(PageURL, Response(StatusOK, doc))}} : TRUE

LinksInit ==
    /\ knownProviders = BuiltinProviders
    /\ regexCache = EmptyCache
    /\ pc = "idle"
    /\ arg = ""
    /\ targetURL = PageURL
    /\ endpoint = ""
    /\ discovered = Discovered(DocWithoutOEmbed).discovered
    /\ requests = Discovered(DocWithoutOEmbed).requests
    /\ result = NoResult
    /\ query = NoCall
    /\ mUrl = ""
    /\ mScheme = ""
    /\ mResult = NotCalled
    /\ mLen = 0
    /\ NoGoroutine
    /\ DefaultClient

\* discoverOEmbedEndpoint(targetURL) on the last page with one more element
\* at the end of its head
Discover(node) ==
    /\ mLen < MaxLinks
    /\ \E r \in {Discovered([requests[1].resp.Body EXCEPT
                     !.Children[1].Children[1].Children = Append(@, node)])} :
          /\ requests' = r.requests
          /\ discovered' = r.discovered
    /\ mLen' = mLen + 1
    /\ UNCHANGED <<knownProviders, regexCache, pc, arg, targetURL, endpoint,
                   result, query, mUrl, mScheme, mResult, Concurrent, client, extract>>

LinksNext == \E node \in HeadElements : Discover(node)

SpecLinks == LinksInit /\ [][LinksNext]_vars

\* the nodes of a tree in document order: a node, then its children's
\* subtrees from first to last
RECURSIVE PreOrder(_)
PreOrder(n) ==
    LET sub  == [i \in DOMAIN n.Children |-> PreOrder(n.Children[i])]
        Cat[k \in 0..Len(sub)] == IF k = 0 THEN <<>> ELSE Cat[k - 1] \o sub[k]
    IN  <<n>> \o Cat[Len(sub)]

\* a link element with rel exactly "alternate" and an oEmbed type
IsOEmbedLink(n) ==
    /\ n.Type = "ElementNode"
    /\ n.Data = "link"
    /\ \E i \in DOMAIN n.Attr : n.Attr[i] = Attribute("rel", "alternate")
    /\ \E i \in DOMAIN n.Attr :
          n.Attr[i] \in {Attribute("type", "application/json+oembed"),
                         Attribute("type", "text/json+oembed")}

Href(n) ==
    IF \E i \in DOMAIN n.Attr : n.Attr[i].Key = "href"
    THEN n.Attr[CHOOSE i \in DOMAIN n.Attr : n.Attr[i].Key = "href"].Val
    ELSE ""

\* the href of the first node of the sequence that is among the chosen
\* positions, "" when none is chosen
FirstHref(nodes, chosen) ==
    IF chosen = {} THEN ""
    ELSE Href(nodes[CHOOSE i \in chosen : \A j \in chosen : i <= j])

\* C19 as stated: the link search returns the href of the first oEmbed
\* link element in document order, and "" when the page has none; a later
\* oEmbed link never wins over an earlier one.
C19_Original ==
    \E nodes \in {PreOrder(requests[1].resp.Body)} :
        findOEmbedLink(requests[1].resp.Body)
            = FirstHref(nodes, {i \in DOMAIN nodes : IsOEmbedLink(nodes[i])})

\* C19 amended: the link search returns the href of the first oEmbed link
\* element in document order whose href is not empty, and "" when the page
\* has none; an oEmbed link with an empty href is passed over, so a later
\* link wins over it.  discoverOEmbedEndpoint returns that href, resolved
\* against the page URL when it is relative.
C19_FirstUsableLink ==
    \E nodes \in {PreOrder(requests[1].resp.Body)} :
    \E href \in {FirstHref(nodes, {i \in DOMAIN nodes :
                                      IsOEmbedLink(nodes[i]) /\ Href(nodes[i]) # ""})} :
        /\ findOEmbedLink(requests[1].resp.Body) = href
        /\ ~discovered.err
        /\ discovered.endpoint
               = IF href = "" \/ IsAbs(href) THEN href ELSE "https://example.com" \o href

\* the head has an oEmbed link with an empty href, then a nested oEmbed
\* link, then one more: discovery returns the nested, second one
C19_Witness ==
    /\ mLen = 3
    /\ \E nodes \in {PreOrder(requests[1].resp.Body)} :
       \E found \in {{i \in DOMAIN nodes : IsOEmbedLink(nodes[i])}} :
          /\ Cardinality(found) = 3
          /\ FirstHref(nodes, found) = ""
          /\ findOEmbedLink(requests[1].resp.Body) = "/n"
    /\ discovered.endpoint = "https://example.com/n"

-----------------------------------------------------------------------------
(* the Discovery flag of the endpoints *)

\* the provider list with other Discovery flags: every flag negated, every
\* flag set, no flag set
Reflagged(providers, flags) ==
    [p \in DOMAIN providers |->
        [providers[p] EXCEPT !.Endpoints =
            [e \in DOMAIN @ |->
                [@[e] EXCEPT !.Discovery =
                    IF flags = "negated" THEN ~@ ELSE flags = "set"]]]]

Flaggings == {"negated", "set", "clear"}

\* the endpoint URL belongs to an endpoint whose Discovery flag is false
NoDiscoveryFlag(ep) ==
    \E p \in DOMAIN knownProviders : \E e \in DOMAIN knownProviders[p].Endpoints :
        /\ knownProviders[p].Endpoints[e].URL = ep
        /\ ~knownProviders[p].Endpoints[e].Discovery

\* C20: resolution never reads the Discovery flag.  Whatever the flags of
\* the registry are changed to, the step a call of Client.ExtractOEmbed
\* begins with finds the same endpoint and leaves the same cache, and
\* IsOEmbedSupported returns the same value; every later step of the call
\* reads no provider.  When the request to a known endpoint has failed the
\* page is requested next, also for an endpoint whose flag is false.
C20_DiscoveryFlagUnread ==
    [][/\ (pc = "idle" /\ pc' # "idle") =>
              \A flags \in Flaggings :
                  \E f \in {findOEmbedEndpoint(Reflagged(knownProviders, flags),
                                               regexCache, targetURL')} :
                      /\ endpoint' = f.endpoint
                      /\ regexCache' = f.cache
       /\ (pc = "idle" /\ pc' = "idle" /\ query'.op = "IsOEmbedSupported") =>
              \A flags \in Flaggings :
                  \E f \in {findOEmbedEndpoint(Reflagged(knownProviders, flags),
                                               regexCache, query'.url)} :
                      /\ query'.ret = (f.endpoint # "")
                      /\ regexCache' = f.cache
       /\ pc # "idle" =>
              /\ knownProviders' = knownProviders
              /\ regexCache' = regexCache
              /\ endpoint' \in {endpoint, ""}
       /\ (pc = "fetchKnown" /\ Failed(requests'[1].resp)) =>
              /\ Len(requests') = 2
              /\ requests'[2] = PageRequest(targetURL)
              /\ pc' = "discover"]_vars

\* the request to the endpoint of a provider registered with Discovery
\* false has failed, and the page has been requested
C20_Witness ==
    /\ pc = "discover"
    /\ targetURL = "https://myservice.com/videos/1"
    /\ endpoint = "https://myservice.com/oembed"
    /\ NoDiscoveryFlag(endpoint)
    /\ Len(requests) = 2
    /\ requests[1].kind = "oembed"
    /\ Failed(requests[1].resp)
    /\ requests[2] = PageRequest(targetURL)

-----------------------------------------------------------------------------
(* normalizeURL on texts with and without a scheme *)

\* pieces an argument of normalizeURL is built from, starting from the
\* empty text
NormalizePieces == {"example.com", "/r?to=", "http", "://", ":", "mailto", "x", "HTTPS"}

NormalizeInit ==
    /\ knownProviders = BuiltinProviders
    /\ regexCache = EmptyCache
    /\ pc = "idle"
    /\ arg = ""
    /\ targetURL = ""
    /\ endpoint = ""
    /\ discovered = NoDiscovery
    /\ requests = <<>>
    /\ result = NoResult
    /\ query = NoCall
    /\ mUrl = ""
    /\ mScheme = ""
    /\ mResult = NotCalled
    /\ mLen = 0
    /\ NoGoroutine
    /\ DefaultClient

\* targetURL = normalizeURL(targetURL) on the last argument extended by a
\* piece, as Extract and ExtractOEmbed begin
NormalizeURL(piece) ==
    /\ mLen < MaxPieces
    /\ arg' = arg \o piece
    /\ targetURL' = normalizeURL(arg \o piece)
    /\ mLen' = mLen + 1
    /\ UNCHANGED <<knownProviders, regexCache, pc, endpoint, discovered,
                   requests, result, query, mUrl, mScheme, mResult, Concurrent, client, extract>>

NormalizeNext == \E piece \in NormalizePieces : NormalizeURL(piece)

SpecNormalize == NormalizeInit /\ [][NormalizeNext]_vars

\* C21: normalizeURL prefixes "https://" exactly when its argument has no
\* scheme and returns the argument as it is otherwise, and normalizing the
\* result again changes nothing.
C21_PrefixIffNoScheme ==
    mLen > 0 =>
        /\ targetURL = (IF getScheme(arg) = "" THEN "https://" \o arg ELSE arg)
        /\ normalizeURL(targetURL) = targetURL

\* an argument without a scheme whose query holds "://" comes back as it is
C21_Witness ==
    /\ arg = "example.com/r?to=http://"
    /\ getScheme(arg) = ""
    /\ targetURL = arg
    /\ normalizeURL(targetURL) = targetURL

\* normalizing twice gives what normalizing once gives
C21_Idempotent ==
    mLen > 0 => normalizeURL(targetURL) = targetURL

-----------------------------------------------------------------------------
(* Client.Extract *)

\* the most options a client is built with, and the largest redirect limit
\* an option sets
MaxOptions == 2

MaxRedirects == 2

Options ==
    {WithMaxRedirects(n) : n \in 0..MaxRedirects}
    \cup {WithAutoOEmbed(b) : b \in BOOLEAN}
    \cup {WithStrategy(s) : s \in {StrategyAuto, StrategyOEmbedFirst, StrategyHTMLOnly}}

OptionLists == UNION {[1..n -> Options] : n \in 0..MaxOptions}

\* arguments of Client.Extract: the arguments of ExtractOEmbed, a URL of
\* another protocol and the documented YouTube URL without a subdomain
ExtractURLs == TargetURLs \cup {"ftp://example.com", "https://youtube.com/watch?v=123"}

\* the request of extractHTMLOnly
HTMLRequest(url) ==
    [kind |-> "html", url |-> url, target |-> "", GET |-> url, resp |-> Pending]

HTMLResponse(code, contentType, body) ==
    [err |-> FALSE, StatusCode |-> code, ContentType |-> contentType, Body |-> body]

\* what httpClient.Do may return to extractHTMLOnly (a body that is not
\* HTML is not read, the model gives it a document as well)
HTMLResponses == {
    [err |-> TRUE, StatusCode |-> 0, ContentType |-> "", Body |-> Nil],
    HTMLResponse(404, "text/html", DocWithoutOEmbed),
    HTMLResponse(StatusOK, "application/json", DocWithoutOEmbed),
    HTMLResponse(StatusOK, "text/html; charset=utf-8", DocWithoutOEmbed),
    HTMLResponse(StatusOK, "application/xhtml+xml", DocWithOEmbed("/oembed")) }

ClientInit ==
    /\ knownProviders = BuiltinProviders
    /\ regexCache = EmptyCache
    /\ pc = "idle"
    /\ arg = ""
    /\ targetURL = ""
    /\ endpoint = ""
    /\ discovered = NoDiscovery
    /\ requests = <<>>
    /\ result = NoResult
    /\ query = NoCall
    /\ mUrl = ""
    /\ mScheme = ""
    /\ mResult = NotCalled
    /\ mLen = 0
    /\ NoGoroutine
    /\ client \in {NewClient(opts) : opts \in OptionLists}
    /\ extract = NoExtract

\* the strategy Extract executes, and the cache the choice leaves behind:
\* IsOEmbedSupported is called only under StrategyAuto with autoOEmbed set
ChosenStrategy(c, providers, cache, url) ==
    IF c.strategy # StrategyAuto
    THEN [strategy |-> c.strategy, cache |-> cache]
    ELSE IF ~c.autoOEmbed
         THEN [strategy |-> StrategyHTMLOnly, cache |-> cache]
         ELSE CHOOSE r \in
                  {[strategy |-> IF f.endpoint # "" THEN StrategyOEmbedFirst
                                 ELSE StrategyHTMLOnly,
                    cache |-> f.cache] :
                     f \in {findOEmbedEndpoint(providers, cache, url)}} : TRUE

\* the error of an Extract call that the redirect policy has stopped
StoppedAfterRedirects == "failed to fetch URL: stopped after redirects"

\* extractHTMLOnly up to httpClient.Do: the request is the next of the log
BeginHTMLOnly(frame, reqs) ==
    /\ requests' = Append(reqs, HTMLRequest(frame.targetURL))
    /\ extract' = [frame EXCEPT !.pc = "fetchHTML", !.url = frame.targetURL,
                                !.via = 1]

\* the return of an error from Extract
ReturnError(frame, err) ==
    extract' = [frame EXCEPT !.pc = "done", !.metadata = NilMetadata, !.err = err]

\* a call of Client.Extract(u) up to its first HTTP request or its call of
\* Client.ExtractOEmbed
Extract(u) ==
    /\ extract.pc = "idle"
    /\ pc = "idle"
    /\ \E url \in {normalizeURL(u)} :
       \E frame \in {[NoExtract EXCEPT !.arg = u, !.targetURL = url]} :
           IF urlParseErr(url)
           THEN /\ ReturnError(frame, "invalid URL")
                /\ UNCHANGED <<requests, regexCache>>
           ELSE IF UrlScheme(url) \notin {"http", "https"}
           THEN /\ ReturnError(frame, "unsupported protocol: " \o UrlScheme(url))
                /\ UNCHANGED <<requests, regexCache>>
           ELSE \E s \in {ChosenStrategy(client, knownProviders, regexCache, url)} :
                    /\ regexCache' = s.cache
                    /\ IF s.strategy = StrategyOEmbedFirst
                       THEN /\ extract' = [frame EXCEPT !.pc = "extractOEmbedFirst",
                                                        !.strategy = s.strategy]
                            /\ UNCHANGED requests
                       ELSE BeginHTMLOnly([frame EXCEPT !.strategy = s.strategy], <<>>)
    /\ UNCHANGED <<knownProviders, pc, arg, targetURL, endpoint, discovered,
                   result, query, mUrl, mScheme, mResult, mLen, Concurrent, client>>

\* extractOEmbedFirst calls c.ExtractOEmbed(targetURL)
CallExtractOEmbed ==
    /\ extract.pc = "extractOEmbedFirst"
    /\ ExtractOEmbed(extract.targetURL)

\* c.ExtractOEmbed has returned to extractOEmbedFirst: the metadata is built
\* from the record, or extractHTMLOnly takes over
ExtractOEmbedFirst ==
    /\ extract.pc = "extractOEmbedFirst"
    /\ pc = "done"
    /\ IF result.err = Nil
       THEN /\ extract' = [extract EXCEPT
                   !.pc = "done",
                   !.metadata = Metadata(extract.targetURL, result.oembed)]
            /\ UNCHANGED requests
       ELSE BeginHTMLOnly(extract, requests)
    /\ pc' = "idle"
    /\ arg' = ""
    /\ targetURL' = ""
    /\ endpoint' = ""
    /\ discovered' = NoDiscovery
    /\ result' = NoResult
    /\ UNCHANGED <<knownProviders, regexCache, query, mUrl, mScheme, mResult,
                   mLen, Concurrent, client>>

\* the server answers the request of extractHTMLOnly with a redirect:
\* httpClient.Do asks the CheckRedirect policy, and either follows it or
\* returns the policy's error
Redirect(location) ==
    /\ extract.pc = "fetchHTML"
    /\ IF CheckRedirect(client, extract.via)
       THEN /\ ReturnError(extract, StoppedAfterRedirects)
            /\ requests' = Answered(requests,
                   [err |-> TRUE, StatusCode |-> 0, ContentType |-> "", Body |-> Nil])
       ELSE /\ extract' = [extract EXCEPT
                   !.url = ResolveReference(extract.url, location),
                   !.via = @ + 1]
            /\ UNCHANGED requests
    /\ UNCHANGED <<knownProviders, regexCache, query, mUrl, mScheme, mResult,
                   mLen, Concurrent, client>>
    /\ UNCHANGED <<pc, arg, targetURL, endpoint, discovered, result>>

\* httpClient.Do returns to extractHTMLOnly: the metadata of the page, or
\* an error
ExtractHTMLOnly(resp) ==
    /\ extract.pc = "fetchHTML"
    /\ requests' = Answered(requests, resp)
    /\ IF resp.err
       THEN ReturnError(extract, "failed to fetch URL")
       ELSE IF resp.StatusCode # StatusOK
       THEN ReturnError(extract, "HTTP error")
       ELSE IF ~Contains(resp.ContentType, "text/html")
               /\ ~Contains(resp.ContentType, "application/xhtml")
       THEN ReturnError(extract, "unsupported content type: " \o resp.ContentType)
       ELSE extract' = [extract EXCEPT !.pc = "done",
                                       !.metadata = Metadata(extract.url, Nil)]
    /\ UNCHANGED <<knownProviders, regexCache, query, mUrl, mScheme, mResult,
                   mLen, Concurrent, client>>
    /\ UNCHANGED <<pc, arg, targetURL, endpoint, discovered, result>>

\* the caller has the result of Extract
ExtractReturn ==
    /\ extract.pc = "done"
    /\ extract' = NoExtract
    /\ requests' = <<>>
    /\ UNCHANGED <<knownProviders, regexCache, query, mUrl, mScheme, mResult,
                   mLen, Concurrent, client>>
    /\ UNCHANGED <<pc, arg, targetURL, endpoint, discovered, result>>

ClientNext ==
    \/ \E u \in ExtractURLs : Extract(u)
    \/ CallExtractOEmbed
    \/ \E r \in OEmbedResponses : KnownResponse(r)
    \/ \E r \in PageResponses : DiscoveryResponse(r)
    \/ \E r \in OEmbedResponses : DiscoveredResponse(r)
    \/ ExtractOEmbedFirst
    \/ Redirect("/redirect")
    \/ \E r \in HTMLResponses : ExtractHTMLOnly(r)
    \/ ExtractReturn

SpecClient == ClientInit /\ [][ClientNext]_vars

-----------------------------------------------------------------------------
(* properties of Client.Extract *)

\* the target URL passes the checks Extract makes before it chooses a strategy
ValidTarget(url) == ~urlParseErr(url) /\ UrlScheme(url) \in {"http", "https"}

\* the kinds of the requests of the log, in order
Kinds(reqs) == [i \in DOMAIN reqs |-> reqs[i].kind]

\* C22: under StrategyAuto a call of Client.Extract on a valid URL makes
\* exactly one HTTP call, an oEmbed fetch when the URL is oEmbed-supported
\* and an HTML fetch otherwise, also when the oEmbed fetch fails.
C22_AlwaysOneCall ==
    (/\ extract.pc = "done"
     /\ client.strategy = StrategyAuto
     /\ client.autoOEmbed
     /\ ValidTarget(extract.targetURL)) =>
        Kinds(requests) =
            IF findOEmbedEndpoint(knownProviders, regexCache,
                                  extract.targetURL).endpoint # ""
            THEN <<"oembed">> ELSE <<"html">>

\* the default client has made four HTTP calls for one supported URL: the
\* known endpoint and the discovered endpoint have failed, and the page was
\* fetched for discovery and again for its metadata
C22_Witness ==
    /\ extract.pc = "done"
    /\ client = NewClient(<<>>)
    /\ extract.arg = "https://www.youtube.com/watch?v=123"
    /\ extract.strategy = StrategyOEmbedFirst
    /\ Kinds(requests) = <<"oembed", "page", "oembed", "html">>
    /\ Failed(requests[1].resp)
    /\ requests[2].GET = requests[4].GET

\* C23: a client built with WithAutoOEmbed(false) issues no oEmbed request,
\* and the metadata of its successful Extract calls has a nil OEmbed field,
\* whatever its other options are.
C23_NoOEmbedWhenDisabled ==
    ~client.autoOEmbed =>
        /\ \A i \in DOMAIN requests : requests[i].kind # "oembed"
        /\ (extract.pc = "done" /\ extract.err = Nil) =>
               extract.metadata.OEmbed = Nil

\* a client built with WithAutoOEmbed(false) and
\* WithStrategy(StrategyOEmbedFirst) returns metadata with an oEmbed record
C23_Witness ==
    /\ client = NewClient(<<WithAutoOEmbed(FALSE), WithStrategy(StrategyOEmbedFirst)>>)
    /\ extract.pc = "done"
    /\ extract.err = Nil
    /\ extract.metadata.OEmbed \in Records
    /\ Kinds(requests) = <<"oembed">>

\* C24: a client built with WithMaxRedirects(n) follows up to n redirects;
\* the policy fails a request only at a redirect beyond the n-th, and no
\* request is taken further than n redirects.
C24_FollowsUpToN ==
    /\ extract.pc = "fetchHTML" => extract.via - 1 <= client.maxRedirects
    /\ extract.err = StoppedAfterRedirects => extract.via > client.maxRedirects

\* the client built with WithMaxRedirects(2) has followed one redirect and
\* fails at the second
C24_Witness ==
    /\ client.maxRedirects = 2
    /\ extract.pc = "done"
    /\ extract.err = StoppedAfterRedirects
    /\ extract.via = 2

-----------------------------------------------------------------------------
(* IsOEmbedSupported on YouTube watch URLs *)

\* pieces an argument of IsOEmbedSupported is built from, starting from the
\* empty text
WatchPieces == {"https://youtube.com/watch", "https://www.youtube.com/watch",
                "", "?v=123", "/", "x"}

\* a call IsOEmbedSupported(url) on the last argument extended by a piece
SupportedURL(piece) ==
    /\ mLen < MaxPieces
    /\ \E url \in {mUrl \o piece} :
       \E f \in {findOEmbedEndpoint(knownProviders, regexCache, url)} :
           /\ mUrl' = url
           /\ query' = [op |-> "IsOEmbedSupported", url |-> url,
                        ret |-> (f.endpoint # "")]
           /\ regexCache' = f.cache
    /\ mLen' = mLen + 1
    /\ UNCHANGED <<knownProviders, mScheme, mResult, Concurrent, client, extract>>
    /\ UNCHANGED CallFrame

SupportedNext == \E piece \in WatchPieces : SupportedURL(piece)

SpecSupported == Init /\ [][SupportedNext]_vars

\* C25: with the built-in providers IsOEmbedSupported is true for every URL
\* that begins with https://youtube.com/watch.
C25_BareDomainSupported ==
    (/\ query.op = "IsOEmbedSupported"
     /\ HasPrefix(query.url, "https://youtube.com/watch")) => query.ret

\* the documented call returns false, the same URL under www. is supported
C25_Witness ==
    /\ knownProviders = BuiltinProviders
    /\ query = [op |-> "IsOEmbedSupported",
                url |-> "https://youtube.com/watch?v=123", ret |-> FALSE]
    /\ findOEmbedEndpoint(knownProviders, regexCache,
                          "https://www.youtube.com/watch?v=123").endpoint
           = "https://www.youtube.com/oembed"

-----------------------------------------------------------------------------
(* the stages of one Client.ExtractOEmbed call *)

\* the request logs a call may have: the known-endpoint fetch, the page
\* fetch of discovery and the discovered-endpoint fetch, each at most once
\* and in this order
StageOrders ==
    {<<>>, <<"oembed">>, <<"oembed", "page">>, <<"oembed", "page", "oembed">>,
     <<"page">>, <<"page", "oembed">>}

\* C26: within one Client.ExtractOEmbed call each stage is attempted at most
\* once and in the order known-endpoint fetch, discovery page fetch,
\* discovered-endpoint fetch: at most three requests are started, a request
\* is started only when the one before it has returned, the known-endpoint
\* fetch is the first request if it is made at all, and a failed stage is not
\* run again.
C26_StagesOnceInOrder ==
    /\ Len(requests) <= 3
    /\ Kinds(requests) \in StageOrders
    /\ \A i \in DOMAIN requests :
           /\ i < Len(requests) =>
                  requests[i].resp.err \/ requests[i].resp.StatusCode # 0
           /\ (requests[i].kind = "oembed" /\ i = 1) =>
                  requests[i].url = endpoint /\ requests[i].target = targetURL
           /\ (requests[i].kind = "oembed" /\ i > 1) =>
                  /\ ~requests[i - 1].resp.err
                  /\ requests[i - 1].resp.StatusCode = StatusOK
                  /\ requests[i].url = discovered.endpoint
                  /\ requests[i].target = targetURL
           /\ requests[i].kind = "page" =>
                  /\ requests[i].url = targetURL
                  /\ i > 1 => Failed(requests[i - 1].resp)

\* all three stages have run and failed, each once
C26_Witness ==
    /\ pc = "done"
    /\ Kinds(requests) = <<"oembed", "page", "oembed">>
    /\ Failed(requests[1].resp)
    /\ requests[2].resp.StatusCode = StatusOK
    /\ Failed(requests[3].resp)
    /\ result.err = NotFoundError(targetURL)

-----------------------------------------------------------------------------
(* coherence of the regex cache *)

\* C27: every entry regexCache[k] is the matcher compiled from
\* schemeToRegex(k), which is what CompileScheme(k) is; a goroutine is never handed another matcher for its
\* scheme, so a returned matchScheme(url, scheme) has the value it has on
\* an empty cache and on the present one, whether or not a clearRegexCache
\* ran beside the call; and no request is made.
C27_CacheCoherent ==
    /\ \A k \in DOMAIN regexCache :
           regexCache[k] = CompileScheme(k).re
    /\ requests = <<>>
    /\ \A g \in Goroutine :
           goroutines[g].op = "matchScheme" =>
               /\ goroutines[g].re # NilRegexp =>
                      goroutines[g].re.text = CompileScheme(goroutines[g].scheme).re
               /\ (goroutines[g].pc = "idle") =>
                      /\ goroutines[g].ret =
                             matchScheme(EmptyCache, goroutines[g].url,
                                         goroutines[g].scheme).match
                      /\ goroutines[g].ret =
                             matchScheme(regexCache, goroutines[g].url,
                                         goroutines[g].scheme).match

\* a matchScheme call that a clearRegexCache ran beside has returned true
\* with the cache empty, another one has returned false with its scheme
\* cached
C27_Witness ==
    \E g, h \in Goroutine :
        /\ goroutines[g].op = "matchScheme"
        /\ goroutines[g].pc = "idle"
        /\ goroutines[g].cleared
        /\ goroutines[g].ret
        /\ regexCache = EmptyCache
        /\ goroutines[h].op = "clearRegexCache"

-----------------------------------------------------------------------------
(* termination of the calls that take regexCacheMutex *)

\* the steps of a goroutine inside matchScheme / getCompiledRegex or
\* clearRegexCache
GoroutineStep(g) ==
    \/ RLock(g)
    \/ Lookup(g)
    \/ RUnlock(g)
    \/ Lock(g)
    \/ Recheck(g)
    \/ Compile(g)
    \/ Unlock(g)
    \/ Match(g)
    \/ Replace(g)

\* every goroutine makes one call, all of them beside each other
FairCacheNext ==
    \E g \in Goroutine :
        \/ /\ goroutines[g] = NotStarted
           /\ \E scheme \in CacheSchemes : CallMatchScheme(g, CacheURL, scheme)
        \/ /\ goroutines[g] = NotStarted
           /\ CallClearRegexCache(g)
        \/ GoroutineStep(g)

\* the Go scheduler runs every goroutine that can run, and a goroutine
\* blocked in RLock() or Lock() is woken when the mutex is released
SpecCacheFair ==
    /\ Init
    /\ [][FairCacheNext]_vars
    /\ \A g \in Goroutine : WF_vars(GoroutineStep(g))

\* C29: every matchScheme / getCompiledRegex and clearRegexCache call
\* eventually returns, and it returns with all locks released.  A goroutine
\* that is outside a call or waits for the read or the write lock holds
\* neither lock (the read lock is released before the write lock is
\* requested), and every goroutine inside a call is eventually back outside.
C29_EveryCallReturns ==
    /\ [](\A g \in Goroutine :
             goroutines[g].pc \in {"idle", "RLock", "Lock"} =>
                 /\ g \notin regexCacheMutex.readers
                 /\ regexCacheMutex.writer # g)
    /\ \A g \in Goroutine :
          (goroutines[g].pc # "idle") ~> (goroutines[g].pc = "idle")

\* a matchScheme call has missed under the read lock and waits for the
\* write lock, which a clearRegexCache call of another goroutine holds
C29_Witness ==
    \E g, h \in Goroutine :
        /\ goroutines[g].pc = "Lock"
        /\ goroutines[g].op = "matchScheme"
        /\ goroutines[g].re = NilRegexp
        /\ goroutines[h].op = "clearRegexCache"
        /\ regexCacheMutex.writer = h
        /\ regexCacheMutex.readers = {}

====
